---- MODULE Spec2Model ----
(***************************************************************************)
(* A model of fraud_dashboard.py: the Dash session state (selected rule,   *)
(* active tab, rendered recommendation cards, glossary card) with its      *)
(* three callbacks, and the pure helpers of the aggregation / insight      *)
(* layer (safe_div, to_bool_int, last_vs_prior_7d, the insight_* family).  *)
(*                                                                         *)
(* Python values are tagged records [t |-> type, v |-> payload]; a float   *)
(* is a record [k, n, d] (finite rational n/d, or nan, or +-inf).          *)
(***************************************************************************)
EXTENDS Integers, Sequences, FiniteSets, TLC

VARIABLES
    rec_target,      \* dcc.Store(id="rec_target").data
    tabs_value,      \* dcc.Tabs(id="tabs").value
    rec_cards,       \* children of html.Div(id="rec-cards")
    glossary_value,  \* dcc.Dropdown(id="glossary-dropdown").value
    glossary_card,   \* children of html.Div(id="glossary-definition-card")
    pending,         \* callbacks Dash has queued and not yet run
    last_event,      \* history: the interaction handled last
    last_valid,      \* history: key of the most recent valid rule-selection click
    arg,             \* input of the pure function under check
    ret,             \* its result
    pc               \* "call" before the function is applied, "done" after

uiVars == <<rec_target, tabs_value, rec_cards, glossary_value, glossary_card,
            pending, last_event, last_valid>>
fnVars == <<arg, ret, pc>>
vars == <<rec_target, tabs_value, rec_cards, glossary_value, glossary_card,
          pending, last_event, last_valid, arg, ret, pc>>

(***************************************************************************)
(* Python / JSON scalars                                                   *)
(***************************************************************************)
PyStr(s) == [t |-> "str", v |-> s]
PyNum(s) == [t |-> "num", v |-> s]      \* v: the decimal literal
None == [t |-> "null", v |-> ""]
no_update == [t |-> "no_update", v |-> ""]

\* bool(x) of a scalar: None, "" and 0 are falsy
Truthy(x) ==
    CASE x.t = "null" -> FALSE
      [] x.t = "str" -> x.v # ""
      [] x.t = "num" -> x.v # "0"
      [] OTHER -> TRUE

(***************************************************************************)
(* REC_DEFS: the rule catalog, in dict insertion order                     *)
(***************************************************************************)
RecOrder ==
    << "temporal", "failed_payments", "address_velocity", "device",
       "sift", "gov", "platform" >>

RecKeys == { RecOrder[i] : i \in DOMAIN RecOrder }

REC_DEFS ==
    [ key \in RecKeys |->
        CASE key = "temporal" ->
               [ title |-> "Temporal Guardrails (Hot-Zone Windows)",
                 tags |-> << "Time Windows", "Ops", "Rate Limits" >> ]
          [] key = "failed_payments" ->
               [ title |-> "Step-up Verification on Failed Payments",
                 tags |-> << "Payments", "Velocity", "3DS" >> ]
          [] key = "address_velocity" ->
               [ title |-> "Address Velocity & Uniqueness Control",
                 tags |-> << "Address", "Velocity" >> ]
          [] key = "device" ->
               [ title |-> "Device-Level Risk Throttling",
                 tags |-> << "Device", "Rate Limits" >> ]
          [] key = "sift" ->
               [ title |-> "Sift Thresholds with Feedback Loop",
                 tags |-> << "ML Score", "Calibration" >> ]
          [] key = "gov" ->
               [ title |-> "High-Value (GOV) Order Scrutiny",
                 tags |-> << "GOV", "Manual Review" >> ]
          [] OTHER ->
               [ title |-> "Platform-Aware Guardrails",
                 tags |-> << "Platform", "Bots" >> ] ]

\* `key in REC_DEFS` for a Python scalar: only a str can equal a catalog key
InRecDefs(x) == x.t = "str" /\ x.v \in RecKeys

(***************************************************************************)
(* rec_card / build_rec_cards                                              *)
(***************************************************************************)
rec_card(key, cfg, highlight) ==
    [ id |-> key, title |-> cfg.title, tags |-> cfg.tags, highlight |-> highlight ]

\* a build_rec_cards that brings the selected card to the front by swapping
\* it with the first one
build_rec_cards_swap(selected_key) ==
    LET cards == [ i \in DOMAIN RecOrder |->
                     rec_card(RecOrder[i], REC_DEFS[RecOrder[i]],
                              PyStr(RecOrder[i]) = selected_key) ]
    IN  IF Truthy(selected_key) /\ InRecDefs(selected_key)
        THEN LET s == CHOOSE i \in DOMAIN cards : PyStr(cards[i].id) = selected_key
             IN  [ i \in DOMAIN cards |->
                     IF i = 1 THEN cards[s] ELSE IF i = s THEN cards[1] ELSE cards[i] ]
        ELSE cards

\* a build_rec_cards that marks the card it puts first, whatever its key, when
\* a selection is given
build_rec_cards_first(selected_key) ==
    LET cards == [ i \in DOMAIN RecOrder |->
                     rec_card(RecOrder[i], REC_DEFS[RecOrder[i]], FALSE) ]
        isSel(c) == PyStr(c.id) = selected_key
        notSel(c) == ~isSel(c)
        sorted == IF Truthy(selected_key) /\ InRecDefs(selected_key)
                  THEN SelectSeq(cards, isSel) \o SelectSeq(cards, notSel)
                  ELSE cards
    IN  [ i \in DOMAIN sorted |->
            [ sorted[i] EXCEPT !.highlight = (i = 1 /\ Truthy(selected_key)) ] ]

\* cards.sort(key=lambda x: 0 if x[0]==selected_key else 1): Python's sort is
\* stable, so the selected card comes first and the others keep their order
build_rec_cards(selected_key) ==
    LET cards == [ i \in DOMAIN RecOrder |->
                     rec_card(RecOrder[i], REC_DEFS[RecOrder[i]],
                              PyStr(RecOrder[i]) = selected_key) ]
        isSel(c) == PyStr(c.id) = selected_key
        notSel(c) == ~isSel(c)
    IN  IF Truthy(selected_key) /\ InRecDefs(selected_key)
        THEN SelectSeq(cards, isSel) \o SelectSeq(cards, notSel)
        ELSE cards

(***************************************************************************)
(* Component ids and the callback context                                  *)
(*                                                                         *)
(* A prop_id is a sequence of tokens: punctuation, JSON string / number /  *)
(* null literals, and bare words.  Dash writes a dict id as compact JSON   *)
(* with sorted keys, followed by "." and the property name.                *)
(***************************************************************************)
Tok(t, v) == [t |-> t, v |-> v]
P(c) == Tok("p", c)
Dot == P(".")

\* bubble_btn(label, key): the id of the html.Button it creates
bubble_btn(key) == [ type |-> PyStr("rec-bubble"), key |-> key ]

\* the bubble_btn(...) calls of build_tabs, in layout order
LayoutBubbleKeys ==
    << "temporal", "sift", "platform", "address_velocity", "failed_payments",
       "gov", "failed_payments", "address_velocity", "gov", "platform", "sift" >>

\* Dash's serialisation of a {"type", "key"} id: sorted keys, no spaces
StringifyId(id) ==
    << P("{"), Tok("str", "key"), P(":"), id.key, P(","),
       Tok("str", "type"), P(":"), id.type, P("}") >>

PropId(id, prop) == StringifyId(id) \o << Dot, Tok("w", prop) >>

\* str.split(".")[0]: everything before the first "."
SplitDot0(toks) ==
    LET dots == { i \in DOMAIN toks : toks[i] = Dot }
    IN  IF dots = {} THEN toks
        ELSE SubSeq(toks, 1, (CHOOSE i \in dots : \A j \in dots : i <= j) - 1)

IsScalarTok(tk) == tk.t \in {"str", "num", "null"}

\* json.loads on a token sequence: a scalar, or an object of scalar members
\* (later members win); anything else raises JSONDecodeError
JsonLoads(toks) ==
    LET n == Len(toks)
        isObj == /\ n >= 2
                 /\ toks[1] = P("{") /\ toks[n] = P("}")
                 /\ \/ n = 2
                    \/ /\ (n - 2) % 4 = 3
                       /\ \A i \in 2..(n-1) :
                            CASE (i - 2) % 4 = 0 -> toks[i].t = "str"
                              [] (i - 2) % 4 = 1 -> toks[i] = P(":")
                              [] (i - 2) % 4 = 2 -> IsScalarTok(toks[i])
                              [] OTHER -> toks[i] = P(",")
        names == { toks[i].v : i \in { j \in 2..(n-1) : (j - 2) % 4 = 0 } }
        lastOf(k) == CHOOSE i \in 2..(n-1) :
                        /\ (i - 2) % 4 = 0 /\ toks[i].v = k
                        /\ \A j \in 2..(n-1) :
                             ((j - 2) % 4 = 0 /\ toks[j].v = k) => j <= i
    IN  IF n = 1 /\ IsScalarTok(toks[1])
        THEN [ ok |-> TRUE, kind |-> "scalar", val |-> toks[1], names |-> {} ]
        ELSE IF isObj
        THEN [ ok |-> TRUE, kind |-> "dict",
               val |-> [ k \in names |-> toks[lastOf(k) + 2] ], names |-> names ]
        ELSE [ ok |-> FALSE, kind |-> "error", val |-> None, names |-> {} ]

(***************************************************************************)
(* Callbacks                                                               *)
(***************************************************************************)
\* the body of the try block, key = json.loads(trig)["key"]: raises on bad
\* JSON (JSONDecodeError), on a non-dict (TypeError), on a missing key (KeyError)
TryKey(trig) ==
    LET js == JsonLoads(trig)
    IN  IF js.ok /\ js.kind = "dict" /\ "key" \in js.names
        THEN [ raised |-> FALSE, val |-> js.val["key"] ]
        ELSE [ raised |-> TRUE, val |-> None ]

Outputs(target, tab, error) == [ rec_target |-> target, tabs |-> tab, error |-> error ]

\* a router that trusts any truthy key (no `key in REC_DEFS` test)
route_unchecked(ctx) ==
    IF ~ctx.triggered
    THEN Outputs(no_update, no_update, FALSE)
    ELSE LET try == TryKey(SplitDot0(ctx.prop_id))
             key == IF try.raised THEN None ELSE try.val
         IN  IF Truthy(key)
             THEN Outputs(key, PyStr("recs"), FALSE)
             ELSE Outputs(no_update, no_update, FALSE)

\* a router that sets the target and leaves the tab where it is
route_keeps_tab(ctx) ==
    IF ~ctx.triggered
    THEN Outputs(no_update, no_update, FALSE)
    ELSE LET try == TryKey(SplitDot0(ctx.prop_id))
             key == IF try.raised THEN None ELSE try.val
         IN  IF Truthy(key) /\ InRecDefs(key)
             THEN Outputs(key, no_update, FALSE)
             ELSE Outputs(no_update, no_update, FALSE)

\* route_to_recommendation: ctx.triggered is falsy when nothing triggered;
\* `except Exception: key = None` absorbs whatever the try block raises
route_to_recommendation(ctx) ==
    IF ~ctx.triggered
    THEN Outputs(no_update, no_update, FALSE)
    ELSE LET try == TryKey(SplitDot0(ctx.prop_id))
             key == IF try.raised THEN None ELSE try.val
         IN  IF Truthy(key) /\ InRecDefs(key)
             THEN Outputs(key, PyStr("recs"), FALSE)
             ELSE Outputs(no_update, no_update, FALSE)

render_recommendations(selected_key) == build_rec_cards(selected_key)

(***************************************************************************)
(* Glossary                                                                *)
(***************************************************************************)
glossary_items ==
    <<
       << "DELIVERY_ID",
          "ID of Order/Delivery." >>,
       << "CREATED_AT",
          "Timestamp for order creation." >>,
       << "CONSUMER_ID",
          "ID of consumer account." >>,
       << "GOV",
          "Gross Order Value in cents; includes items subtotal, fees, taxes, tip." >>,
       << "CX_AGE_ON_DELIVERY_BASED_ON_FIRST_ORDER",
          "Consumer age in days at this delivery, since first order date." >>,
       << "PLATFORM",
          "Platform used at checkout (iOS/Android/Web)." >>,
       << "RECEIVED_CHARGEBACK",
          "Whether the delivery received a chargeback." >>,
       << "IS_FRAUDULENT_CHARGEBACK",
          "True if chargeback reason in {'fraudulent','unrecognized','general'} per issuer." >>,
       << "CHARGEBACK_COST",
          "Potential chargeback cost in cents (txn amount + processor fee; goes to 0 if win)." >>,
       << "CX_DEVICE_ORDER_NUM",
          "Sequence number of orders by this consumer on this device." >>,
       << "CX_ADDRESS_ORDER_NUM",
          "Sequence number of orders by this consumer to this address." >>,
       << "CX_CARD_ORDER_NUM",
          "Sequence number of orders by this consumer using this card fingerprint." >>,
       << "CX_ORDER_NUM",
          "Sequence number of orders by this consumer (overall)." >>,
       << "CX_UNIQUE_ADDRESSES",
          "Total unique addresses this consumer has ever used (to date)." >>,
       << "UNIQUE_ADDRESS_PAST_1DAY",
          "Unique addresses used in last 24 hours from this order's creation." >>,
       << "UNIQUE_ADDRESS_PAST_7DAY",
          "Unique addresses used in last 7x24 hours from this order's creation." >>,
       << "SIFT_CREATE_ORDER_PA_SCORE",
          "Sift score for this order creation event." >>,
       << "FAIL_CHARGES_1HR",
          "Failed charge attempts in the hour before order." >>,
       << "FAIL_CHARGES_1D",
          "Failed charge attempts in the day before order." >>,
       << "FAIL_CHARGES_7D",
          "Failed charge attempts in the 7 days before order." >>,
       << "DEVICE_DELIVERIES",
          "Total deliveries placed by this device (to date)." >>,
       << "DEVICE_PCT_CHARGEBACK",
          "% of this device's deliveries that received chargebacks." >>,
       << "CCR_PAST_DELIVERIES",
          "Consumer's total deliveries prior to this one." >>,
       << "CCR_CHARGEBACK_DELIVERIES",
          "Consumer's total prior chargebacks." >>,
       << "CX_PCT_CHARGEBACK",
          "Consumer chargeback rate = CCR_CHARGEBACK_DELIVERIES / CCR_PAST_DELIVERIES." >>
    >>

\* the dropdown offers one option per glossary item; the model keeps the first
\* MaxGlossary of them
MaxGlossary == 2

GlossaryFields == { glossary_items[i][1] : i \in 1..MaxGlossary }

\* dict(glossary_df.values)
glossary_map ==
    [ f \in GlossaryFields |->
        glossary_items[CHOOSE i \in DOMAIN glossary_items : glossary_items[i][1] = f][2] ]

\* show_glossary_definition(field): an empty Div for a falsy field, else a card
\* with the field and glossary_map.get(field, "-")
show_glossary_definition(field) ==
    IF ~Truthy(field)
    THEN << >>
    ELSE << field.v,
            IF field.t = "str" /\ field.v \in GlossaryFields
            THEN glossary_map[field.v] ELSE "-" >>

(***************************************************************************)
(* The session: layout state and user interactions                         *)
(***************************************************************************)
TabValues == { "trends", "predictors", "recs", "assumptions", "glossary" }

\* Callback contexts.  key is the key of the control that was clicked (None
\* when the trigger is not a control with a key).
Ctx(triggered, prop_id, key) ==
    [ triggered |-> triggered, prop_id |-> prop_id, key |-> key ]

NoCtx == Ctx(FALSE, << Dot >>, None)

\* a click on one of the buttons build_tabs creates
LayoutTriggers ==
    { Ctx(TRUE, PropId(bubble_btn(PyStr(LayoutBubbleKeys[i])), "n_clicks"),
          PyStr(LayoutBubbleKeys[i])) : i \in DOMAIN LayoutBubbleKeys }

\* requests no button of the layout produces: other keys, ids without a key,
\* ids that are not JSON objects, cut-off ids, nothing triggered
OtherKeys ==
    { PyStr("bogus"), PyStr("device"), PyStr(""), PyStr("recs"),
      PyNum("0"), PyNum("7"), None }

ForeignTriggers ==
    { Ctx(TRUE, PropId(bubble_btn(k), "n_clicks"), k) : k \in OtherKeys }
    \cup
    { NoCtx,
      Ctx(TRUE, << P("{"), Tok("str", "type"), P(":"), Tok("str", "rec-bubble"),
                   P("}"), Dot, Tok("w", "n_clicks") >>, None),
      Ctx(TRUE, << Tok("w", "tabs"), Dot, Tok("w", "value") >>, None),
      Ctx(TRUE, << Tok("str", "temporal"), Dot, Tok("w", "n_clicks") >>, None),
      Ctx(TRUE, << P("{"), Tok("str", "key"), P(":"), Tok("str", "temporal"),
                   Dot, Tok("w", "n_clicks") >>, None),
      Ctx(TRUE, << P("{"), Tok("str", "key"), P(":"), Tok("str", "gov"), P(","),
                   Tok("str", "key"), P(":"), Tok("str", "sift"), P("}"),
                   Dot, Tok("w", "n_clicks") >>, PyStr("sift")) }

Triggers == LayoutTriggers \cup ForeignTriggers

Event(kind, ctx, error) == [ kind |-> kind, ctx |-> ctx, error |-> error ]

\* a Dash output is written unless the callback returned dash.no_update
Written(old, out) == IF out = no_update THEN old ELSE out

\* what the router answers to each request (evaluated once per request)
RouterAnswer == [ ctx \in Triggers |-> route_to_recommendation(ctx) ]

UIInit ==
    /\ rec_target = None
    /\ tabs_value = PyStr("trends")
    /\ rec_cards = << >>
    /\ glossary_value = PyStr(glossary_items[1][1])
    /\ glossary_card = << >>
    /\ pending = { "render_recommendations", "show_glossary_definition" }
    /\ last_event = Event("load", NoCtx, FALSE)
    /\ last_valid = None

FnIdle ==
    /\ arg = None
    /\ ret = None
    /\ pc = "idle"

Init == UIInit /\ FnIdle

\* a request for the bubble router, handled by route_to_recommendation; a
\* written rec_target queues render_recommendations
RouteToRecommendation(ctx) ==
    LET out == RouterAnswer[ctx]
    IN  /\ rec_target' = Written(rec_target, out.rec_target)
        /\ tabs_value' = Written(tabs_value, out.tabs)
        /\ pending' = IF out.rec_target = no_update THEN pending
                      ELSE pending \cup { "render_recommendations" }
        /\ last_event' = Event("click", ctx, out.error)
        /\ last_valid' = IF InRecDefs(ctx.key) THEN ctx.key ELSE last_valid
        /\ UNCHANGED << rec_cards, glossary_value, glossary_card >>
        /\ UNCHANGED fnVars

\* the user picks a tab of dcc.Tabs
SwitchTab(t) ==
    /\ tabs_value' = PyStr(t)
    /\ last_event' = Event("tab", NoCtx, FALSE)
    /\ UNCHANGED << rec_target, rec_cards, glossary_value, glossary_card,
                    pending, last_valid >>
    /\ UNCHANGED fnVars

\* the user picks a field of the glossary dropdown (clearable=False)
SelectGlossary(f) ==
    /\ glossary_value' = PyStr(f)
    /\ pending' = pending \cup { "show_glossary_definition" }
    /\ last_event' = Event("glossary", NoCtx, FALSE)
    /\ UNCHANGED << rec_target, tabs_value, rec_cards, glossary_card, last_valid >>
    /\ UNCHANGED fnVars

\* a render callback that also reloads the table, dropping its records
RenderRecommendations_reloads ==
    /\ "render_recommendations" \in pending
    /\ rec_cards' = render_recommendations(rec_target)
    /\ pending' = pending \ { "render_recommendations" }
    /\ last_event' = Event("render", NoCtx, FALSE)
    /\ arg' = IF arg = None THEN arg ELSE [ arg EXCEPT !.rows = << >> ]
    /\ UNCHANGED << rec_target, tabs_value, glossary_value, glossary_card, last_valid,
                    ret, pc >>

RenderRecommendations ==
    /\ "render_recommendations" \in pending
    /\ rec_cards' = render_recommendations(rec_target)
    /\ pending' = pending \ { "render_recommendations" }
    /\ last_event' = Event("render", NoCtx, FALSE)
    /\ UNCHANGED << rec_target, tabs_value, glossary_value, glossary_card, last_valid >>
    /\ UNCHANGED fnVars

ShowGlossaryDefinition ==
    /\ "show_glossary_definition" \in pending
    /\ glossary_card' = show_glossary_definition(glossary_value)
    /\ pending' = pending \ { "show_glossary_definition" }
    /\ last_event' = Event("definition", NoCtx, FALSE)
    /\ UNCHANGED << rec_target, tabs_value, rec_cards, glossary_value, last_valid >>
    /\ UNCHANGED fnVars

Next ==
    \/ \E ctx \in Triggers : RouteToRecommendation(ctx)
    \/ \E t \in TabValues : SwitchTab(t)
    \/ \E f \in GlossaryFields : SelectGlossary(f)
    \/ RenderRecommendations
    \/ ShowGlossaryDefinition

Spec == Init /\ [][Next]_vars

(***************************************************************************)
(* Properties of the session                                               *)
(***************************************************************************)
\* a click whose control key is not a catalog key (or that has no key at all)
InvalidClick(e) == e.kind = "click" /\ ~InRecDefs(e.ctx.key)
ValidClick(e) == e.kind = "click" /\ InRecDefs(e.ctx.key)

C2_BubbleSelects ==
    /\ \A i \in DOMAIN LayoutBubbleKeys : LayoutBubbleKeys[i] \in RecKeys
    /\ (last_event.kind = "click" /\ last_event.ctx \in LayoutTriggers) =>
          /\ rec_target = last_event.ctx.key
          /\ tabs_value = PyStr("recs")

\* a layout bubble clicked while its cards for another rule are on display
C2_Witness ==
    /\ last_event.kind = "click"
    /\ last_event.ctx \in LayoutTriggers
    /\ rec_target = PyStr("platform")
    /\ Len(rec_cards) > 0 /\ rec_cards[1].id = "sift"

\* C3: rec_target is the key of the most recent valid rule-selection click,
\* None before the first one; nothing else writes it.
C3_LastWriteWins == rec_target = last_valid

\* an invalid click after a valid one, with a tab switch in between
C3_Witness ==
    /\ InvalidClick(last_event)
    /\ last_valid = PyStr("temporal")
    /\ tabs_value = PyStr("assumptions")
    /\ "render_recommendations" \notin pending

CatalogIndex(key) == CHOOSE i \in DOMAIN RecOrder : RecOrder[i] = key

\* C4: the cards rendered for a selected catalog key are a permutation of the
\* catalog with each rule's own content, the selected card first, the others
\* in catalog order.
C4_PureReordering ==
    ("render_recommendations" \notin pending /\ InRecDefs(rec_target)) =>
        /\ Len(rec_cards) = Len(RecOrder)
        /\ { rec_cards[i].id : i \in DOMAIN rec_cards } = RecKeys
        /\ \A i \in DOMAIN rec_cards :
              /\ rec_cards[i].title = REC_DEFS[rec_cards[i].id].title
              /\ rec_cards[i].tags = REC_DEFS[rec_cards[i].id].tags
        /\ rec_cards[1].id = rec_target.v
        /\ \A i, j \in 2..Len(rec_cards) :
              i < j => CatalogIndex(rec_cards[i].id) < CatalogIndex(rec_cards[j].id)

\* the cards rendered for a rule from the middle of the catalog
C4_Witness ==
    /\ "render_recommendations" \notin pending
    /\ rec_target = PyStr("sift")
    /\ Len(rec_cards) = Len(RecOrder)
    /\ rec_cards[1].id = "sift"

(***************************************************************************)
(* Strings as character sequences: str.strip, str.lower, float(str)        *)
(***************************************************************************)
UpperCase ==
    << "A", "B", "C", "D", "E", "F", "G", "H", "I", "J", "K", "L", "M",
       "N", "O", "P", "Q", "R", "S", "T", "U", "V", "W", "X", "Y", "Z" >>
LowerCase ==
    << "a", "b", "c", "d", "e", "f", "g", "h", "i", "j", "k", "l", "m",
       "n", "o", "p", "q", "r", "s", "t", "u", "v", "w", "x", "y", "z" >>
Digits == { "0", "1", "2", "3", "4", "5", "6", "7", "8", "9" }
Whitespace == { " ", "\t", "\n" }

LowerChar(c) ==
    IF \E i \in DOMAIN UpperCase : UpperCase[i] = c
    THEN LowerCase[CHOOSE i \in DOMAIN UpperCase : UpperCase[i] = c]
    ELSE c

\* str.lower()
Lower(s) == [ i \in DOMAIN s |-> LowerChar(s[i]) ]

\* str.strip(): drop leading and trailing whitespace
Strip(s) ==
    LET keep == { i \in DOMAIN s : s[i] \notin Whitespace }
    IN  IF keep = {} THEN << >>
        ELSE SubSeq(s, CHOOSE i \in keep : \A j \in keep : i <= j,
                       CHOOSE i \in keep : \A j \in keep : j <= i)

\* digitpart of the float grammar: digits, single underscores between digits
IsDigitPart(s) ==
    /\ Len(s) >= 1
    /\ s[1] \in Digits /\ s[Len(s)] \in Digits
    /\ \A i \in DOMAIN s : s[i] \in Digits \cup { "_" }
    /\ \A i \in 1..(Len(s) - 1) : ~(s[i] = "_" /\ s[i + 1] = "_")

\* digitpart ["." [digitpart]] | "." digitpart
IsPointFloat(s) ==
    LET dots == { i \in DOMAIN s : s[i] = "." }
    IN  IF dots = {} THEN IsDigitPart(s)
        ELSE LET p == CHOOSE i \in dots : \A j \in dots : i <= j
                 a == SubSeq(s, 1, p - 1)
                 b == SubSeq(s, p + 1, Len(s))
             IN  \/ IsDigitPart(a) /\ (b = << >> \/ IsDigitPart(b))
                 \/ a = << >> /\ IsDigitPart(b)

StripSign(s) == IF Len(s) >= 1 /\ s[1] \in { "+", "-" } THEN Tail(s) ELSE s

\* float(s) of a stripped, lower-cased string: [ok, kind, zero].  ok = FALSE is
\* ValueError.  A finite literal is zero iff its mantissa has no non-zero digit
\* (exponents of the magnitude that underflows are outside the inputs).
ParseFloat(s) ==
    LET u == StripSign(s)
        es == { i \in DOMAIN u : u[i] = "e" }
        bad == [ ok |-> FALSE, kind |-> "error", zero |-> FALSE ]
        num(m) == [ ok |-> TRUE, kind |-> "fin",
                    zero |-> \A i \in DOMAIN m : m[i] \notin (Digits \ { "0" }) ]
    IN  IF u \in { << "i", "n", "f" >>, << "i", "n", "f", "i", "n", "i", "t", "y" >> }
        THEN [ ok |-> TRUE, kind |-> "inf", zero |-> FALSE ]
        ELSE IF u = << "n", "a", "n" >>
        THEN [ ok |-> TRUE, kind |-> "nan", zero |-> FALSE ]
        ELSE IF es = {}
        THEN IF IsPointFloat(u) THEN num(u) ELSE bad
        ELSE LET p == CHOOSE i \in es : \A j \in es : i <= j
                 m == SubSeq(u, 1, p - 1)
                 x == StripSign(SubSeq(u, p + 1, Len(u)))
             IN  IF IsPointFloat(m) /\ IsDigitPart(x) THEN num(m) ELSE bad

(***************************************************************************)
(* to_bool_int                                                             *)
(***************************************************************************)
TruthyWords == {
      << "1" >>, << "t", "r", "u", "e" >>, << "t" >>, << "y", "e", "s" >>,
      << "y" >> }
FalseyWords == {
      << "0" >>, << "f", "a", "l", "s", "e" >>, << "f" >>, << "n", "o" >>,
      << "n" >> }

\* a cell of the column: absent (None / NaN), a str, or a bool
Absent == [ t |-> "absent", s |-> << >> ]
Text(s) == [ t |-> "str", s |-> s ]
PyBool(b) == [ t |-> "bool", s |-> IF b THEN << "T", "r", "u", "e" >>
                                        ELSE << "F", "a", "l", "s", "e" >> ]

\* str(x)
ToStr(x) == x.s

\* to_bool_int._map(x): float("nan") and float("inf") parse, and both are != 0
to_bool_int(x) ==
    IF x.t = "absent" THEN 0
    ELSE LET s == Lower(Strip(ToStr(x)))
         IN  IF s \in TruthyWords THEN 1
             ELSE IF s \in FalseyWords THEN 0
             ELSE LET f == ParseFloat(s)
                  IN  IF ~f.ok THEN 0
                      ELSE IF f.kind = "fin" /\ f.zero THEN 0 ELSE 1

\* longest run of blanks put around a word
MaxPad == 1

BoolWords == {
      << "1" >>, << "t", "r", "u", "e" >>, << "t" >>, << "y", "e", "s" >>,
      << "y" >>, << "0" >>, << "f", "a", "l", "s", "e" >>, << "f" >>,
      << "n", "o" >>, << "n" >>, << "T", "r", "u", "e" >>,
      << "T", "R", "U", "E" >>, << "Y", "e", "s" >>, << "Y", "E", "S" >>,
      << "Y" >>, << "T" >>, << "F", "a", "l", "s", "e" >>, << "N", "o" >>,
      << "N" >>, << "F" >>, << "2" >>, << "0", ".", "0" >>, << "-", "1" >>,
      << "1", ".", "5" >>, << "0", "0" >>, << "1", "e", "5" >>,
      << "0", "e", "0" >>, << "0", "E", "5" >>, << ".", "5" >>, << "5", "." >>,
      << "1", "_", "0" >>, << "+", "0" >>, << "-", "0", ".", "0" >>,
      << "0", "0", "0", ".", "0", "0", "0" >>, << "1", "e", "-", "5" >>,
      << "7", "E", "+", "2" >>, << "n", "a", "n" >>, << "N", "a", "N" >>,
      << "-", "n", "a", "n" >>, << "i", "n", "f" >>, << "-", "i", "n", "f" >>,
      << "I", "n", "f" >>, << "i", "n", "f", "i", "n", "i", "t", "y" >>,
      << "I", "n", "f", "i", "n", "i", "t", "y" >>,
      << "+", "i", "n", "f", "i", "n", "i", "t", "y" >>, << >>,
      << "a", "b", "c" >>, << "m", "a", "y", "b", "e" >>, << "y", "e", "s", "!" >>,
      << "1", ".", "2", ".", "3" >>, << "e", "5" >>, << "-", "-", "1" >>,
      << "0", "x", "1", "0" >>, << "1", " ", "0" >>, << "1", "_" >>,
      << "_", "1" >>, << "1", "_", "_", "0" >>, << "." >>, << "-" >>,
      << "1", "e" >>, << "t", "r", "u" >>, << "n", "a", "n", "n" >>,
      << "i", "n" >>, << "0", ",", "5" >> }

Pads == UNION { [ 1..n -> { " ", "\t" } ] : n \in 0..MaxPad }

BoolInputs ==
    { Absent, PyBool(TRUE), PyBool(FALSE) }
    \cup { Text(l \o w \o r) : l \in Pads, r \in Pads, w \in BoolWords }

(***************************************************************************)
(* Floats, safe_div and the daily rates                                    *)
(***************************************************************************)
Fin(n, d) == [ k |-> "fin", n |-> n, d |-> d ]     \* the rational n/d, d > 0
NaN == [ k |-> "nan", n |-> 0, d |-> 1 ]
Inf(sign) == [ k |-> "inf", n |-> sign, d |-> 1 ]
Zero == Fin(0, 1)

IsZeroF(f) == f.k = "fin" /\ f.n = 0
Sign(i) == IF i < 0 THEN -1 ELSE IF i > 0 THEN 1 ELSE 0

\* numeric arguments: int, float, None
PyInt(i) == [ t |-> "int", i |-> i ]
PyFloatV(f) == [ t |-> "float", f |-> f ]
PyNone == [ t |-> "none" ]

\* bool(x)
IsTrue(x) ==
    CASE x.t = "int" -> x.i # 0
      [] x.t = "float" -> ~IsZeroF(x.f)
      [] OTHER -> FALSE

Raise == [ raised |-> TRUE, val |-> NaN ]
Return(v) == [ raised |-> FALSE, val |-> v ]

\* float(x): TypeError for None
ToFloat(x) ==
    CASE x.t = "int" -> Return(Fin(x.i, 1))
      [] x.t = "float" -> Return(x.f)
      [] OTHER -> Raise

\* a / b on Python floats: ZeroDivisionError for b == 0
FloatDiv(a, b) ==
    IF IsZeroF(b) THEN Raise
    ELSE IF a.k = "nan" \/ b.k = "nan" THEN Return(NaN)
    ELSE IF a.k = "inf"
         THEN IF b.k = "inf" THEN Return(NaN) ELSE Return(Inf(a.n * Sign(b.n)))
    ELSE IF b.k = "inf" THEN Return(Zero)
    ELSE Return(Fin(a.n * b.d * Sign(b.n), a.d * b.n * Sign(b.n)))

\* a safe_div that divides with no zero test and no except clause
safe_div_unguarded(n, d) ==
    LET fn == ToFloat(n)
        fd == ToFloat(d)
    IN  IF fn.raised \/ fd.raised THEN Raise ELSE FloatDiv(fn.val, fd.val)

\* safe_div(n, d): `float(n) / float(d) if d else 0.0` inside try, and
\* `except: return 0.0`
safe_div(n, d) ==
    LET fn == ToFloat(n)
        fd == ToFloat(d)
        body == IF IsTrue(d)
                THEN IF fn.raised \/ fd.raised THEN Raise
                     ELSE FloatDiv(fn.val, fd.val)
                ELSE Return(Zero)
    IN  IF body.raised THEN Return(Zero) ELSE body

\* Series.replace(0, np.nan) on one element
Replace0(f) == IF IsZeroF(f) THEN NaN ELSE f

\* Series / Series on one element (numpy true division: no exception)
NpDiv(a, b) ==
    IF a.k = "nan" \/ b.k = "nan" THEN NaN
    ELSE IF IsZeroF(b) THEN (IF IsZeroF(a) THEN NaN ELSE Inf(Sign(a.n)))
    ELSE FloatDiv(a, b).val

\* Series.fillna(0) on one element
FillNa0(f) == IF f.k = "nan" THEN Zero ELSE f

\* daily["chargeback_rate"] / daily["fraud_rate"] of one date: count is the
\* positive count of the date, deliveries its count of non-null DELIVERY_ID
daily_rate(count, deliveries) ==
    FillNa0(NpDiv(Fin(count, 1), Replace0(Fin(deliveries, 1))))

\* largest magnitude of an int argument; most rows a date has
MaxInt == 2
MaxGroup == 3

Numbers ==
    { PyInt(i) : i \in (-MaxInt)..MaxInt }
    \cup { PyFloatV(Fin(i, d)) : i \in (-MaxInt)..MaxInt, d \in 1..2 }
    \cup { PyFloatV(NaN), PyFloatV(Inf(1)), PyFloatV(Inf(-1)), PyNone }

SafeDivInputs == { [ fn |-> "safe_div", n |-> n, d |-> d ] : n, d \in Numbers }

\* a date with r rows has at most r non-null ids and at most r positives
DailyRateInputs ==
    { [ fn |-> "daily_rate", count |-> c, deliveries |-> m ] :
        c \in 0..MaxGroup, m \in 0..MaxGroup }

(***************************************************************************)
(* Rationals (finite floats) and series                                    *)
(***************************************************************************)
RECURSIVE Gcd(_, _)
Gcd(a, b) == IF b = 0 THEN a ELSE Gcd(b, a % b)
Abs(i) == IF i < 0 THEN -i ELSE i

\* n/d in lowest terms (d > 0)
Ratio(n, d) == LET g == Gcd(Abs(n), d) IN Fin(n \div g, d \div g)

RAdd(a, b) == Ratio(a.n * b.d + b.n * a.d, a.d * b.d)
RSub(a, b) == Ratio(a.n * b.d - b.n * a.d, a.d * b.d)
REq(a, b) == a.n * b.d = b.n * a.d
RLess(a, b) == a.n * b.d < b.n * a.d

\* a date is a day number from 1 on; NaT, the missing date, is a value that
\* no day and no day minus a Timedelta equals
NaT == -100

\* comparisons of index values: every comparison with NaT is False
DateGt(a, b) == a # NaT /\ b # NaT /\ a > b
DateLe(a, b) == a # NaT /\ b # NaT /\ a <= b

\* DatetimeIndex.max(): skips NaT; NaT when nothing else is there
IndexMax(dates) ==
    LET known == dates \ { NaT }
    IN  IF known = {} THEN NaT ELSE CHOOSE m \in known : \A d \in known : d <= m

\* d - pd.Timedelta(days=k)
MinusDays(d, k) == IF d = NaT THEN NaT ELSE d - k

\* a Series indexed by date is a function from its dates to its values
RECURSIVE SeriesSum(_, _)
SeriesSum(s, dates) ==
    IF dates = {} THEN Zero
    ELSE LET d == CHOOSE x \in dates : TRUE
         IN  RAdd(s[d], SeriesSum(s, dates \ { d }))

\* Series.mean() of the rows at `dates` (non-empty, no NaN value)
SeriesMean(s, dates) ==
    LET t == SeriesSum(s, dates)
    IN  Ratio(t.n, t.d * Cardinality(dates))

(***************************************************************************)
(* last_vs_prior_7d                                                        *)
(***************************************************************************)
WindowDays == 7
TwoWindowDays == 14

NoResult == [ none |-> TRUE, last |-> Zero, prior |-> Zero, delta |-> Zero ]
Result(l, p, d) == [ none |-> FALSE, last |-> l, prior |-> p, delta |-> d ]

\* a comparison whose prior window also takes the day last_date - 14
last_vs_prior_7d_closed(s) ==
    IF DOMAIN s = {} THEN NoResult
    ELSE LET last_date == IndexMax(DOMAIN s)
             last7 == { d \in DOMAIN s : DateGt(d, MinusDays(last_date, WindowDays)) }
             prior7 == { d \in DOMAIN s :
                           /\ ~DateGt(MinusDays(last_date, TwoWindowDays), d)
                           /\ d # NaT /\ last_date # NaT
                           /\ DateLe(d, MinusDays(last_date, WindowDays)) }
         IN  IF Cardinality(last7) = 0 \/ Cardinality(prior7) = 0 THEN NoResult
             ELSE Result(SeriesMean(s, last7), SeriesMean(s, prior7),
                         RSub(SeriesMean(s, last7), SeriesMean(s, prior7)))

\* a comparison that averages each window over 7 days, absent days as zero
last_vs_prior_7d_zero_filled(s) ==
    IF DOMAIN s = {} THEN NoResult
    ELSE LET last_date == IndexMax(DOMAIN s)
             last7 == { d \in DOMAIN s : DateGt(d, MinusDays(last_date, WindowDays)) }
             prior7 == { d \in DOMAIN s :
                           /\ DateGt(d, MinusDays(last_date, TwoWindowDays))
                           /\ DateLe(d, MinusDays(last_date, WindowDays)) }
             m7(w) == LET t == SeriesSum(s, w) IN Ratio(t.n, t.d * WindowDays)
         IN  IF last_date = NaT THEN NoResult
             ELSE Result(m7(last7), m7(prior7), RSub(m7(last7), m7(prior7)))

\* last_vs_prior_7d(series_dates, values), s being the Series it builds
last_vs_prior_7d(s) ==
    IF DOMAIN s = {} THEN NoResult
    ELSE LET last_date == IndexMax(DOMAIN s)
             last7 == { d \in DOMAIN s : DateGt(d, MinusDays(last_date, WindowDays)) }
             prior7 == { d \in DOMAIN s :
                           /\ DateGt(d, MinusDays(last_date, TwoWindowDays))
                           /\ DateLe(d, MinusDays(last_date, WindowDays)) }
         IN  IF Cardinality(last7) = 0 \/ Cardinality(prior7) = 0 THEN NoResult
             ELSE Result(SeriesMean(s, last7), SeriesMean(s, prior7),
                         RSub(SeriesMean(s, last7), SeriesMean(s, prior7)))

\* days of history, rows of a sparse series
MaxDay == 16
MaxSparse == 3

\* daily rates the series holds
RateValues == { Zero, Fin(1, 1) }

\* series with few rows anywhere in the history (NaT is a possible group key)
SparseSeries ==
    UNION { [ D -> RateValues ] :
              D \in { X \in SUBSET ({ NaT } \cup 1..MaxDay) :
                         Cardinality(X) <= MaxSparse } }

\* series with a row on every day 1..n: one rate up to day k, another after
DenseSeries ==
    { [ d \in 1..n |-> IF d <= k THEN a ELSE b ] :
        n \in 1..MaxDay, k \in 0..MaxDay, a \in RateValues, b \in RateValues }

(***************************************************************************)
(* The loaded table and its aggregates                                     *)
(*                                                                         *)
(* A row is a record of the preprocessed df.  A grouping cell is           *)
(* [na, ord, name]: na for a missing value, ord the number (or, for text,  *)
(* its rank in sort order), name the text.  Measures are floats.           *)
(***************************************************************************)
Num(i) == [ na |-> FALSE, ord |-> i, name |-> "" ]
Str(rank, name) == [ na |-> FALSE, ord |-> rank, name |-> name ]
NaCell == [ na |-> TRUE, ord |-> 0, name |-> "nan" ]

RECURSIVE SumOver(_, _, _)
\* sum of an int column over the rows at `idx`
SumOver(df, idx, col) ==
    IF idx = {} THEN 0
    ELSE LET i == CHOOSE x \in idx : TRUE
         IN  df[i][col] + SumOver(df, idx \ { i }, col)

RECURSIVE FloatSumOver(_, _, _)
\* Series.sum() / groupby sum of a float column: NaN cells are skipped
FloatSumOver(df, idx, col) ==
    IF idx = {} THEN Zero
    ELSE LET i == CHOOSE x \in idx : TRUE
             rest == FloatSumOver(df, idx \ { i }, col)
         IN  IF df[i][col].k = "nan" THEN rest ELSE RAdd(df[i][col], rest)

\* Series.mean() / groupby mean of a float column: NaN cells are skipped, and
\* the mean of nothing is NaN
FloatMeanOver(df, idx, col) ==
    LET have == { i \in idx : df[i][col].k # "nan" }
        t == FloatSumOver(df, have, col)
    IN  IF have = {} THEN NaN ELSE Ratio(t.n, t.d * Cardinality(have))

RECURSIVE SortCells(_)
\* group keys in groupby order: ascending, the missing key last
SortCells(cells) ==
    IF cells = {} THEN << >>
    ELSE LET known == { c \in cells : ~c.na }
         IN  IF known = {} THEN << NaCell >>
             ELSE LET m == CHOOSE c \in known : \A o \in known : c.ord <= o.ord
                  IN  << m >> \o SortCells(cells \ { m })

\* a grouping that reports the number of fraudulent records of each key
GroupFraudRate_sum(df, col) ==
    LET keys == SortCells({ df[i][col] : i \in DOMAIN df })
    IN  [ g \in DOMAIN keys |->
            LET idx == { i \in DOMAIN df : df[i][col] = keys[g] }
            IN  [ key |-> keys[g],
                  fraud_rate |-> Ratio(SumOver(df, idx, "FRAUD_FLAG"), 1) ] ]

\* df.groupby(col, dropna=False)["FRAUD_FLAG"].mean().reset_index(): one row
\* per observed key, fraud_rate the mean of the flag over the key's rows
GroupFraudRate(df, col) ==
    LET keys == SortCells({ df[i][col] : i \in DOMAIN df })
    IN  [ g \in DOMAIN keys |->
            LET idx == { i \in DOMAIN df : df[i][col] = keys[g] }
            IN  [ key |-> keys[g],
                  fraud_rate |-> Ratio(SumOver(df, idx, "FRAUD_FLAG"),
                                       Cardinality(idx)) ] ]

RECURSIVE SortDates(_)
\* dates in ascending order, NaT last (groupby keys, sort_index)
SortDates(dates) ==
    IF dates = {} THEN << >>
    ELSE IF dates = { NaT } THEN << NaT >>
    ELSE LET m == CHOOSE d \in dates \ { NaT } : \A o \in dates \ { NaT } : d <= o
         IN  << m >> \o SortDates(dates \ { m })

\* daily: df.groupby("DATE", dropna=False).agg(...) and the two rate columns
Daily(df) ==
    LET dates == SortDates({ df[i].DATE : i \in DOMAIN df })
    IN  [ g \in DOMAIN dates |->
            LET idx == { i \in DOMAIN df : df[i].DATE = dates[g] }
                deliveries == Cardinality({ i \in idx : ~df[i].DELIVERY_ID.na })
                chargebacks == SumOver(df, idx, "RECEIVED_CHARGEBACK")
                fraudulent == SumOver(df, idx, "FRAUD_FLAG")
            IN  [ DATE |-> dates[g],
                  deliveries |-> deliveries,
                  chargebacks |-> chargebacks,
                  fraudulent |-> fraudulent,
                  cb_cost |-> FloatSumOver(df, idx, "CHARGEBACK_COST"),
                  avg_sift |-> FloatMeanOver(df, idx, "SIFT_CREATE_ORDER_PA_SCORE"),
                  avg_gov |-> FloatMeanOver(df, idx, "GOV_DOLLARS"),
                  chargeback_rate |-> daily_rate(chargebacks, deliveries),
                  fraud_rate |-> daily_rate(fraudulent, deliveries) ] ]

\* a preprocessing that keeps the order value in cents
Preprocess_cents(t) ==
    [ i \in DOMAIN t.rows |->
        LET r == t.rows[i]
        IN  [ c \in DOMAIN r \cup { "FRAUD_FLAG", "GOV_DOLLARS" } |->
                CASE c = "FRAUD_FLAG" -> r.IS_FRAUDULENT_CHARGEBACK
                  [] c = "GOV_DOLLARS" -> FillNa0(r.GOV)
                  [] OTHER -> r[c] ] ]

\* the frame after preprocessing: t.rows are the rows of the file with their
\* cells already coerced (to_numeric, to_bool_int), t.columns the optional
\* columns the file has.  A label column the file lacks is the constant 0;
\* GOV_DOLLARS is GOV / 100 with a missing GOV as 0, and 0.0 without a GOV
\* column.
Preprocess(t) ==
    [ i \in DOMAIN t.rows |->
        LET r == t.rows[i]
            fraud == IF "IS_FRAUDULENT_CHARGEBACK" \in t.columns
                     THEN r.IS_FRAUDULENT_CHARGEBACK ELSE 0
        IN  [ c \in DOMAIN r \cup { "FRAUD_FLAG", "GOV_DOLLARS" } |->
                CASE c = "RECEIVED_CHARGEBACK" ->
                        IF c \in t.columns THEN r.RECEIVED_CHARGEBACK ELSE 0
                  [] c = "IS_FRAUDULENT_CHARGEBACK" -> fraud
                  [] c = "FRAUD_FLAG" -> fraud
                  [] c = "GOV_DOLLARS" ->
                        IF "GOV" \in t.columns
                        THEN LET q == FloatDiv(FillNa0(r.GOV), Fin(100, 1)).val
                             IN  Ratio(q.n, q.d)
                        ELSE Zero
                  [] OTHER -> r[c] ] ]

\* pd.qcut(GOV_DOLLARS, q=10, duplicates="drop") and astype(str), for a column
\* of at most two distinct amounts: with one amount every edge coincides, no
\* interval is left and every label is "nan"; with two, the smaller amount
\* falls in the first interval and the larger in the last.  Labels sort as
\* text: first interval, last interval, "nan".
GovBinLabel(df, i) ==
    LET amounts == { df[j].GOV_DOLLARS : j \in DOMAIN df }
    IN  IF Cardinality(amounts) = 1 THEN Str(3, "nan")
        ELSE IF \A o \in amounts : ~RLess(o, df[i].GOV_DOLLARS)
             THEN Str(1, "first interval")
             ELSE Str(2, "last interval")

WithGovBin(df) ==
    [ i \in DOMAIN df |->
        [ c \in DOMAIN df[i] \cup { "GOV_BIN_LABEL" } |->
            IF c = "GOV_BIN_LABEL" THEN GovBinLabel(df, i) ELSE df[i][c] ] ]

\* the named aggregation of daily raises KeyError for a column that is not there
DailyKeyError(t) ==
    ~({ "CHARGEBACK_COST", "SIFT_CREATE_ORDER_PA_SCORE" } \subseteq t.columns)

\* the KPIs and tables computed once at startup
Aggregates(t) ==
    LET df == WithGovBin(Preprocess(t))
        overall_deliveries ==
            Cardinality({ df[i].DELIVERY_ID : i \in { j \in DOMAIN df : ~df[j].DELIVERY_ID.na } })
        overall_cb == SumOver(df, DOMAIN df, "RECEIVED_CHARGEBACK")
        overall_fraud == SumOver(df, DOMAIN df, "FRAUD_FLAG")
    IN  [ overall_deliveries |-> overall_deliveries,
          overall_cb_rate |-> safe_div(PyInt(overall_cb), PyInt(overall_deliveries)).val,
          overall_fraud_rate |-> safe_div(PyInt(overall_fraud), PyInt(overall_deliveries)).val,
          overall_cb_cost |-> FloatSumOver(df, DOMAIN df, "CHARGEBACK_COST"),
          avg_gov |-> FloatMeanOver(df, DOMAIN df, "GOV_DOLLARS"),
          avg_sift |-> FloatMeanOver(df, DOMAIN df, "SIFT_CREATE_ORDER_PA_SCORE"),
          daily |-> Daily(df),
          fraud_by_platform |->
              IF "PLATFORM" \in t.columns
              THEN GroupFraudRate(df, "PLATFORM") ELSE << >>,
          fraud_by_addr |->
              IF "CX_UNIQUE_ADDRESSES" \in t.columns
              THEN GroupFraudRate(df, "CX_UNIQUE_ADDRESSES") ELSE << >>,
          fraud_by_failed |->
              IF "FAIL_CHARGES_1D" \in t.columns
              THEN GroupFraudRate(df, "FAIL_CHARGES_1D") ELSE << >>,
          fraud_by_gov_bin |-> GroupFraudRate(df, "GOV_BIN_LABEL") ]

(***************************************************************************)
(* Quick insight helpers                                                   *)
(*                                                                         *)
(* A bullet is the record of what its text reports: its kind and the       *)
(* values formatted into it.  An insight yields [raised, val]: val is the  *)
(* list of bullets it returns, raised an exception that leaves it.         *)
(***************************************************************************)
TextBullet(kind) == [ kind |-> kind ]
ValueBullet(kind, value) == [ kind |-> kind, value |-> value ]
GroupBullet(kind, key, rate) == [ kind |-> kind, key |-> key, rate |-> rate ]
TrendBullet(kind, res) ==
    [ kind |-> kind, last |-> res.last, prior |-> res.prior, delta |-> res.delta ]

ValueError == [ raised |-> TRUE, val |-> << >> ]

\* bullets[:3]
Head3(bullets) == SubSeq(bullets, 1, IF Len(bullets) < 3 THEN Len(bullets) ELSE 3)

\* pd.Series(daily[col].values, index=pd.to_datetime(daily["DATE"]))
DailySeries(daily, col) ==
    [ d \in { daily[g].DATE : g \in DOMAIN daily } |->
        daily[CHOOSE g \in DOMAIN daily : daily[g].DATE = d][col] ]

insight_rates_trend(daily) ==
    LET res_cb == last_vs_prior_7d(DailySeries(daily, "chargeback_rate"))
        res_fr == last_vs_prior_7d(DailySeries(daily, "fraud_rate"))
        b1 == IF res_cb.none THEN << >> ELSE << TrendBullet("chargeback rate 7d", res_cb) >>
        b2 == IF res_fr.none THEN << >> ELSE << TrendBullet("fraud rate 7d", res_fr) >>
        bullets == b1 \o b2
    IN  Return(Head3(IF bullets = << >>
                     THEN << TextBullet("insufficient recent data") >>
                     ELSE bullets))

RECURSIVE CostSum(_)
\* Series.sum() of a run of daily cb_cost values
CostSum(rows) ==
    IF rows = << >> THEN Zero ELSE RAdd(Head(rows).cb_cost, CostSum(Tail(rows)))

\* Series.tail(n), Series.head(n): by position
SeqTail(rows, n) == SubSeq(rows, IF Len(rows) > n THEN Len(rows) - n + 1 ELSE 1, Len(rows))
SeqHead(rows, n) == SubSeq(rows, 1, IF Len(rows) > n THEN n ELSE Len(rows))

\* s is daily in index order (dates ascending, NaT last), as Daily builds it
insight_cb_cost(daily, overall_cb_cost) ==
    IF daily = << >> THEN Return(<< TextBullet("no cost data") >>)
    ELSE LET last7 == CostSum(SeqTail(daily, WindowDays))
             prior7 == IF Len(daily) >= TwoWindowDays
                       THEN CostSum(SeqHead(SeqTail(daily, TwoWindowDays), WindowDays))
                       ELSE NaN
         IN  Return(Head3(
                 << ValueBullet("last 7d cost", last7) >>
                 \o (IF prior7.k # "nan"
                     THEN << [ kind |-> "prior 7d cost", value |-> prior7,
                               change |-> RSub(last7, prior7) ] >>
                     ELSE << >>)
                 \o << ValueBullet("lifetime cost", overall_cb_cost) >>))

RMul(a, b) == Ratio(a.n * b.n, a.d * b.d)

RECURSIVE ProductSum(_, _, _)
\* sum over the rows of row[x] * row[y]
ProductSum(rows, x, y) ==
    IF rows = << >> THEN Zero
    ELSE RAdd(RMul(Head(rows)[x], Head(rows)[y]), ProductSum(Tail(rows), x, y))

\* daily[["avg_sift", "fraud_rate"]].dropna().corr().iloc[0,1]: NaN with fewer
\* than two rows or a constant column, else a value of the covariance's sign
SiftFraudCorr(daily) ==
    LET isRow(r) == r.avg_sift.k # "nan" /\ r.fraud_rate.k # "nan"
        rows == SelectSeq([ g \in DOMAIN daily |->
                              [ avg_sift |-> daily[g].avg_sift,
                                fraud_rate |-> daily[g].fraud_rate,
                                one |-> Fin(1, 1) ] ], isRow)
        n == Fin(Len(rows), 1)
        sx == ProductSum(rows, "avg_sift", "one")
        sy == ProductSum(rows, "fraud_rate", "one")
        varx == RSub(RMul(n, ProductSum(rows, "avg_sift", "avg_sift")), RMul(sx, sx))
        vary == RSub(RMul(n, ProductSum(rows, "fraud_rate", "fraud_rate")), RMul(sy, sy))
        cov == RSub(RMul(n, ProductSum(rows, "avg_sift", "fraud_rate")), RMul(sx, sy))
    IN  IF Len(rows) < 2 \/ IsZeroF(varx) \/ IsZeroF(vary) THEN NaN
        ELSE Fin(Sign(cov.n), 1)

\* SIFT_CREATE_ORDER_PA_SCORE and GOV_DOLLARS are columns of every df that
\* reaches this point, avg_sift and fraud_rate columns of every daily
insight_sift_gov(avg_sift, avg_gov, daily) ==
    LET c == SiftFraudCorr(daily)
        bullets ==
            (IF avg_sift.k # "nan" THEN << ValueBullet("average sift", avg_sift) >> ELSE << >>)
            \o << ValueBullet("average order value", avg_gov) >>
            \o (IF c.k # "nan" THEN << ValueBullet("sift vs fraud correlation", c) >> ELSE << >>)
    IN  Return(IF bullets # << >> THEN Head3(bullets)
               ELSE << TextBullet("no sift/gov data") >>)

\* Series.idxmax() / idxmin() of fraud_rate: the first row holding the extreme
IdxMax(tbl) ==
    CHOOSE g \in DOMAIN tbl :
        /\ \A o \in DOMAIN tbl : ~RLess(tbl[g].fraud_rate, tbl[o].fraud_rate)
        /\ \A o \in 1..(g - 1) : RLess(tbl[o].fraud_rate, tbl[g].fraud_rate)

IdxMin(tbl) ==
    CHOOSE g \in DOMAIN tbl :
        /\ \A o \in DOMAIN tbl : ~RLess(tbl[o].fraud_rate, tbl[g].fraud_rate)
        /\ \A o \in 1..(g - 1) : RLess(tbl[g].fraud_rate, tbl[o].fraud_rate)

\* an insight_platform whose `bot` is looked up with idxmax as well
insight_platform_top_twice(fraud_by_platform, overall_fraud_rate) ==
    IF fraud_by_platform = << >> THEN Return(<< TextBullet("no platform data") >>)
    ELSE LET top == fraud_by_platform[IdxMax(fraud_by_platform)]
             bot == fraud_by_platform[IdxMax(fraud_by_platform)]
         IN  Return(<< GroupBullet("highest", top.key, top.fraud_rate),
                       GroupBullet("lowest", bot.key, bot.fraud_rate),
                       ValueBullet("baseline", overall_fraud_rate) >>)

insight_platform(fraud_by_platform, overall_fraud_rate) ==
    IF fraud_by_platform = << >> THEN Return(<< TextBullet("no platform data") >>)
    ELSE LET top == fraud_by_platform[IdxMax(fraud_by_platform)]
             bot == fraud_by_platform[IdxMin(fraud_by_platform)]
         IN  Return(<< GroupBullet("highest", top.key, top.fraud_rate),
                       GroupBullet("lowest", bot.key, bot.fraud_rate),
                       ValueBullet("baseline", overall_fraud_rate) >>)

\* rows that sort_values("fraud_rate", ascending=False).head(1) can yield: the
\* sort is not stable, so any row of the largest rate
SortHeads(tbl) ==
    { g \in DOMAIN tbl : \A o \in DOMAIN tbl : ~RLess(tbl[g].fraud_rate, tbl[o].fraud_rate) }

\* mean of fraud_rate over the rows whose key is >= least: a missing key
\* compares False
MeanFrom(tbl, least) ==
    LET rows == { g \in DOMAIN tbl : ~tbl[g].key.na /\ tbl[g].key.ord >= least }
        series == [ g \in rows |-> tbl[g].fraud_rate ]
    IN  IF rows = {} THEN NaN ELSE SeriesMean(series, rows)

\* high is the row the descending sort puts first; int() of a missing key
\* raises ValueError
insight_addresses(fraud_by_addr, overall_fraud_rate, high) ==
    IF fraud_by_addr = << >> THEN Return(<< TextBullet("no address data") >>)
    ELSE IF fraud_by_addr[high].key.na THEN ValueError
    ELSE Return(Head3(
             << GroupBullet("highest", fraud_by_addr[high].key,
                            fraud_by_addr[high].fraud_rate),
                ValueBullet("baseline", overall_fraud_rate) >>
             \o (IF \E g \in DOMAIN fraud_by_addr :
                        ~fraud_by_addr[g].key.na /\ fraud_by_addr[g].key.ord >= 2
                 THEN << ValueBullet("2+ addresses average", MeanFrom(fraud_by_addr, 2)) >>
                 ELSE << >>)))

insight_failed(fraud_by_failed) ==
    IF fraud_by_failed = << >> THEN Return(<< TextBullet("no failed charge data") >>)
    ELSE LET isZero == { g \in DOMAIN fraud_by_failed :
                           ~fraud_by_failed[g].key.na /\ fraud_by_failed[g].key.ord = 0 }
             zero == [ g \in isZero |-> fraud_by_failed[g].fraud_rate ]
             ge1 == MeanFrom(fraud_by_failed, 1)
             ge2 == MeanFrom(fraud_by_failed, 2)
             bullets ==
                 (IF isZero # {}
                  THEN << ValueBullet("0 failed charges", SeriesMean(zero, isZero)) >>
                  ELSE << >>)
                 \o (IF ge1.k # "nan" THEN << ValueBullet(">=1 failed charge", ge1) >> ELSE << >>)
                 \o (IF ge2.k # "nan" THEN << ValueBullet(">=2 failed charges", ge2) >> ELSE << >>)
         IN  Return(IF bullets # << >> THEN Head3(bullets)
                    ELSE << TextBullet("insufficient distribution") >>)

insight_govbin(fraud_by_gov_bin, overall_fraud_rate) ==
    IF fraud_by_gov_bin = << >> THEN Return(<< TextBullet("no gov bin data") >>)
    ELSE LET top == fraud_by_gov_bin[IdxMax(fraud_by_gov_bin)]
             bot == fraud_by_gov_bin[IdxMin(fraud_by_gov_bin)]
         IN  Return(Head3(<< GroupBullet("highest", top.key, top.fraud_rate),
                             GroupBullet("lowest", bot.key, bot.fraud_rate),
                             ValueBullet("baseline", overall_fraud_rate) >>))

insight_heatmap ==
    Return(<< TextBullet("heatmap reading"), TextBullet("heatmap use") >>)

\* the insight lists build_tabs renders, in layout order; high is the head row
\* of the address sort
Insights(a, high) ==
    [ insight_heatmap |-> insight_heatmap,
      insight_rates_trend |-> insight_rates_trend(a.daily),
      insight_cb_cost |-> insight_cb_cost(a.daily, a.overall_cb_cost),
      insight_sift_gov |-> insight_sift_gov(a.avg_sift, a.avg_gov, a.daily),
      insight_platform |-> insight_platform(a.fraud_by_platform, a.overall_fraud_rate),
      insight_addresses |-> insight_addresses(a.fraud_by_addr, a.overall_fraud_rate, high),
      insight_failed |-> insight_failed(a.fraud_by_failed),
      insight_govbin |-> insight_govbin(a.fraud_by_gov_bin, a.overall_fraud_rate) ]

(***************************************************************************)
(* Tables the file can hold                                                *)
(***************************************************************************)
\* rows of a small table
MaxRows == 2

OptionalColumns ==
    { "PLATFORM", "CX_UNIQUE_ADDRESSES", "FAIL_CHARGES_1D", "GOV",
      "CHARGEBACK_COST", "SIFT_CREATE_ORDER_PA_SCORE", "RECEIVED_CHARGEBACK",
      "IS_FRAUDULENT_CHARGEBACK" }

\* row i of a table whose rows differ in nothing but their id; GOV is in cents
BaseRow(i) ==
    [ DATE |-> 16, DELIVERY_ID |-> Num(i), RECEIVED_CHARGEBACK |-> 0,
      IS_FRAUDULENT_CHARGEBACK |-> 0, CHARGEBACK_COST |-> NaN,
      SIFT_CREATE_ORDER_PA_SCORE |-> NaN, GOV |-> Zero,
      PLATFORM |-> Str(2, "iOS"), CX_UNIQUE_ADDRESSES |-> Num(1),
      FAIL_CHARGES_1D |-> Num(0) ]

Flags == { 0, 1 }
Small == 1..MaxRows

Table(columns, rows) == [ columns |-> columns, rows |-> rows ]

\* tables that vary the fraud flag and one segment column
AddressTables ==
    { Table(OptionalColumns,
            [ i \in DOMAIN c |-> [ BaseRow(i) EXCEPT !.IS_FRAUDULENT_CHARGEBACK = c[i][1],
                                                      !.CX_UNIQUE_ADDRESSES = c[i][2] ] ]) :
        c \in UNION { [ 1..n -> Flags \X { NaCell, Num(1), Num(2), Num(3) } ] :
                        n \in Small } }

PlatformTables ==
    { Table(OptionalColumns,
            [ i \in DOMAIN c |-> [ BaseRow(i) EXCEPT !.IS_FRAUDULENT_CHARGEBACK = c[i][1],
                                                      !.PLATFORM = c[i][2] ] ]) :
        c \in UNION { [ 1..n -> Flags \X { NaCell, Str(1, "Android"), Str(2, "iOS") } ] :
                        n \in Small } }

FailedTables ==
    { Table(OptionalColumns,
            [ i \in DOMAIN c |-> [ BaseRow(i) EXCEPT !.IS_FRAUDULENT_CHARGEBACK = c[i][1],
                                                      !.FAIL_CHARGES_1D = c[i][2] ] ]) :
        c \in UNION { [ 1..n -> Flags \X { NaCell, Num(0), Num(1), Num(2) } ] :
                        n \in Small } }

GovTables ==
    { Table(OptionalColumns,
            [ i \in DOMAIN c |-> [ BaseRow(i) EXCEPT !.IS_FRAUDULENT_CHARGEBACK = c[i][1],
                                                      !.GOV = c[i][2] ] ]) :
        c \in UNION { [ 1..n -> Flags \X { Zero, Fin(1000, 1) } ] : n \in Small } }

\* tables that vary the date, the labels (both set or both clear) and the id
DatedTables ==
    { Table(OptionalColumns,
            [ i \in DOMAIN c |->
                [ BaseRow(i) EXCEPT !.DATE = c[i][1],
                                    !.RECEIVED_CHARGEBACK = c[i][2],
                                    !.IS_FRAUDULENT_CHARGEBACK = c[i][2],
                                    !.DELIVERY_ID = IF c[i][3] = 1 THEN Num(1) ELSE NaCell ] ]) :
        c \in UNION { [ 1..n -> { NaT, 9, 16 } \X Flags \X Flags ] : n \in Small } }

\* tables that vary the date, the Sift score and the fraud flag
SiftTables ==
    { Table(OptionalColumns,
            [ i \in DOMAIN c |->
                [ BaseRow(i) EXCEPT !.DATE = c[i][1],
                                    !.SIFT_CREATE_ORDER_PA_SCORE = c[i][2],
                                    !.IS_FRAUDULENT_CHARGEBACK = c[i][3] ] ]) :
        c \in UNION { [ 1..n -> { 9, 16 } \X { NaN, Fin(1, 1), Fin(2, 1) } \X Flags ] :
                        n \in Small } }

\* tables of a file that lacks optional columns
ColumnTables ==
    { Table(cols, [ i \in 1..n |->
                      [ BaseRow(i) EXCEPT !.IS_FRAUDULENT_CHARGEBACK = flag,
                                          !.RECEIVED_CHARGEBACK = flag,
                                          !.GOV = Fin(5000, 1) ] ]) :
        cols \in SUBSET OptionalColumns, flag \in Flags, n \in Small }

\* tables that vary the date, the order value (missing, or 5000 cents) and
\* the labels (both set or both clear)
OrderValueTables ==
    { Table(OptionalColumns,
            [ i \in DOMAIN c |->
                [ BaseRow(i) EXCEPT !.DATE = c[i][1],
                                    !.GOV = c[i][2],
                                    !.RECEIVED_CHARGEBACK = c[i][3],
                                    !.IS_FRAUDULENT_CHARGEBACK = c[i][3] ] ]) :
        c \in UNION { [ 1..n -> { 9, 16 } \X { NaN, Fin(5000, 1) } \X Flags ] :
                        n \in Small } }

\* the table of a file with a header and no record
EmptyTables == { Table(OptionalColumns, << >>) }

\* a table with one record on each of the days 1..n: the cost is a up to day
\* k and b after it
HistoryTables ==
    { Table(OptionalColumns,
            [ i \in 1..n |-> [ BaseRow(i) EXCEPT !.DATE = i,
                                                  !.CHARGEBACK_COST = IF i <= k THEN a ELSE b ] ]) :
        n \in 1..MaxDay, k \in { 0, 7 }, a \in { NaN, Fin(1, 1) }, b \in { Fin(2, 1) } }

\* tables that vary the date and the chargeback cost: histories with gaps
CostTables ==
    { Table(OptionalColumns,
            [ i \in DOMAIN c |-> [ BaseRow(i) EXCEPT !.DATE = c[i][1],
                                                      !.CHARGEBACK_COST = c[i][2] ] ]) :
        c \in UNION { [ 1..n -> { NaT, 1, 9, 16 } \X { NaN, Fin(1, 1), Fin(2, 1) } ] :
                        n \in Small } }

Tables ==
    AddressTables \cup PlatformTables \cup FailedTables \cup GovTables
    \cup DatedTables \cup SiftTables \cup ColumnTables \cup HistoryTables
    \cup CostTables \cup OrderValueTables \cup EmptyTables

(***************************************************************************)
(* Specifications of the pure helpers: the input is drawn, then applied    *)
(***************************************************************************)
DivInit == UIInit /\ arg \in SafeDivInputs \cup DailyRateInputs /\ ret = None /\ pc = "call"

CallSafeDiv ==
    /\ pc = "call" /\ arg.fn = "safe_div"
    /\ ret' = safe_div(arg.n, arg.d)
    /\ pc' = "done"
    /\ UNCHANGED arg
    /\ UNCHANGED uiVars

CallDailyRate ==
    /\ pc = "call" /\ arg.fn = "daily_rate"
    /\ ret' = Return(daily_rate(arg.count, arg.deliveries))
    /\ pc' = "done"
    /\ UNCHANGED arg
    /\ UNCHANGED uiVars

DivNext == CallSafeDiv \/ CallDailyRate

SpecDiv == DivInit /\ [][DivNext]_vars

BoolInit == UIInit /\ arg \in BoolInputs /\ ret = None /\ pc = "call"

CallToBoolInt ==
    /\ pc = "call"
    /\ ret' = to_bool_int(arg)
    /\ pc' = "done"
    /\ UNCHANGED arg
    /\ UNCHANGED uiVars

BoolNext == CallToBoolInt

SpecBool == BoolInit /\ [][BoolNext]_vars

\* the denominator is the int 0 or the float 0.0; the date has no counted delivery
ZeroDenominator(a) ==
    IF a.fn = "safe_div"
    THEN a.d = PyInt(0) \/ (a.d.t = "float" /\ IsZeroF(a.d.f))
    ELSE a.deliveries = 0

\* C5: with a zero denominator safe_div returns exactly 0.0 for every
\* numerator, safe_div never raises, and the daily rates of a date with no
\* counted delivery are exactly 0.0, not NaN or infinity.
C5_ZeroDenominator ==
    pc = "done" =>
        /\ ~ret.raised
        /\ ZeroDenominator(arg) => ret.val = Zero

\* safe_div(None, 0) and the rate of a date with positives but no counted delivery
C5_Witness ==
    /\ pc = "done"
    /\ ret.val = Zero
    /\ \/ arg = [ fn |-> "safe_div", n |-> PyNone, d |-> PyInt(0) ]
       \/ arg = [ fn |-> "daily_rate", count |-> 2, deliveries |-> 0 ]

\* what the tolerant rule asks of a cell: a number here is a finite decimal
\* literal, so "nan" and "inf" count as unrecognized text
ExpectedBool(x) ==
    IF x.t = "absent" THEN 0
    ELSE LET s == Lower(Strip(ToStr(x)))
             f == ParseFloat(s)
         IN  CASE s \in TruthyWords -> 1
               [] s \in FalseyWords -> 0
               [] f.ok /\ f.kind = "fin" -> IF f.zero THEN 0 ELSE 1
               [] OTHER -> 0

\* C6: to_bool_int is total with results in {0, 1}, absent cells map to 0, the
\* recognized words map as listed, other numbers map by non-zero, and every
\* other string, "nan" and "inf" included, maps to 0.
C6_TolerantRule ==
    pc = "done" => (ret \in { 0, 1 } /\ ret = ExpectedBool(arg))

PeriodInit == UIInit /\ arg \in SparseSeries \cup DenseSeries /\ ret = None /\ pc = "call"

CallLastVsPrior7d ==
    /\ pc = "call"
    /\ ret' = last_vs_prior_7d(arg)
    /\ pc' = "done"
    /\ UNCHANGED arg
    /\ UNCHANGED uiVars

PeriodNext == CallLastVsPrior7d

SpecPeriod == PeriodInit /\ [][PeriodNext]_vars

\* the calendar windows relative to the latest date M of a series
MaxDate(s) == IndexMax(DOMAIN s)
LastWindow(s) == { d \in DOMAIN s \ { NaT } : d \in (MaxDate(s) - 6)..MaxDate(s) }
PriorWindow(s) == { d \in DOMAIN s \ { NaT } : d \in (MaxDate(s) - 13)..(MaxDate(s) - 7) }

\* C7 (as claimed): the comparison returns no result whenever the last or the
\* prior window holds fewer than 7 daily rows.
C7_NoneBelowSevenRows ==
    (pc = "done" /\ (Cardinality(LastWindow(arg)) < WindowDays
                     \/ Cardinality(PriorWindow(arg)) < WindowDays))
        => ret.none

\* C7 (amended): the comparison returns no result whenever the last or the
\* prior window holds no daily row, and a result is never zero-filled: each
\* mean is taken over the rows present in its window, also when they are
\* fewer than 7.
C7_NoneWhenWindowEmpty ==
    pc = "done" =>
        /\ (LastWindow(arg) = {} \/ PriorWindow(arg) = {}) => ret.none
        /\ ~ret.none =>
              /\ ret.last.d * SeriesSum(arg, LastWindow(arg)).n
                   = ret.last.n * SeriesSum(arg, LastWindow(arg)).d
                       * Cardinality(LastWindow(arg))
              /\ ret.prior.d * SeriesSum(arg, PriorWindow(arg)).n
                   = ret.prior.n * SeriesSum(arg, PriorWindow(arg)).d
                       * Cardinality(PriorWindow(arg))

\* a result from a prior window of one row and a last window of two
C7_Witness ==
    /\ pc = "done"
    /\ ~ret.none
    /\ Cardinality(PriorWindow(arg)) = 1
    /\ Cardinality(LastWindow(arg)) = 2
    /\ ~REq(ret.prior, Zero)

\* C8: the last window is the rows dated in (M-7, M], the prior window the
\* rows dated in (M-14, M-7], older rows and undated rows are in neither; the
\* result is (mean of last, mean of prior, last mean - prior mean), and there
\* is none exactly when a window is empty.
C8_CalendarWindows ==
    pc = "done" =>
        /\ LastWindow(arg) \cap PriorWindow(arg) = {}
        /\ ret.none <=> (LastWindow(arg) = {} \/ PriorWindow(arg) = {})
        /\ ~ret.none =>
              /\ REq(ret.last, SeriesMean(arg, LastWindow(arg)))
              /\ REq(ret.prior, SeriesMean(arg, PriorWindow(arg)))
              /\ REq(ret.delta, RSub(SeriesMean(arg, LastWindow(arg)),
                                     SeriesMean(arg, PriorWindow(arg))))

\* a result over two full windows of a series that also has older rows
C8_Witness ==
    /\ pc = "done"
    /\ ~ret.none
    /\ Cardinality(LastWindow(arg)) = WindowDays
    /\ Cardinality(PriorWindow(arg)) = WindowDays
    /\ Cardinality(DOMAIN arg) > TwoWindowDays
    /\ RLess(ret.delta, Zero)

(***************************************************************************)
(* Startup: the aggregates are computed from the loaded table, then        *)
(* build_tabs renders every insight list                                   *)
(***************************************************************************)
InsightInit == UIInit /\ arg \in Tables /\ ret = None /\ pc = "load"

Aggregate ==
    /\ pc = "load"
    /\ IF DailyKeyError(arg)
       THEN /\ ret' = [ aggregates |-> None, insights |-> None ]
            /\ pc' = "crashed"
       ELSE /\ ret' = [ aggregates |-> Aggregates(arg), insights |-> None ]
            /\ pc' = "aggregated"
    /\ UNCHANGED << arg, uiVars >>

\* an insight that raises ends build_tabs, and with it the startup
BuildTabs ==
    /\ pc = "aggregated"
    /\ \E high \in IF ret.aggregates.fraud_by_addr = << >> THEN { 0 }
                   ELSE SortHeads(ret.aggregates.fraud_by_addr) :
          LET ins == Insights(ret.aggregates, high)
          IN  /\ ret' = [ ret EXCEPT !.insights = ins ]
              /\ pc' = IF \E f \in DOMAIN ins : ins[f].raised THEN "failed" ELSE "built"
    /\ UNCHANGED << arg, uiVars >>

InsightNext == Aggregate \/ BuildTabs

SpecInsight == InsightInit /\ [][InsightNext]_vars

Rendered == pc \in { "built", "failed" }
Aggregated == pc \in { "aggregated", "built", "failed" }

MaxRate(tbl) == tbl[IdxMax(tbl)].fraud_rate
MinRate(tbl) == tbl[IdxMin(tbl)].fraud_rate

\* some bullet of `out` reports, as `kind`, a group of tbl whose rate is `rate`
ReportsGroup(out, kind, tbl, rate) ==
    \E b \in DOMAIN out.val : \E g \in DOMAIN tbl :
        /\ out.val[b].kind = kind
        /\ out.val[b] = GroupBullet(kind, tbl[g].key, tbl[g].fraud_rate)
        /\ REq(tbl[g].fraud_rate, rate)

ReportsBaseline(out, overall) ==
    \E b \in DOMAIN out.val : out.val[b] = ValueBullet("baseline", overall)

ReportsExtremes(out, tbl, overall) ==
    /\ ~out.raised
    /\ ReportsGroup(out, "highest", tbl, MaxRate(tbl))
    /\ ReportsGroup(out, "lowest", tbl, MinRate(tbl))
    /\ ReportsBaseline(out, overall)

\* C9: every insight function returns, never raises, and its list holds at
\* least 1 and at most 3 bullets whatever the aggregates hold (empty tables, a
\* single group, a group whose key is missing); an empty segment table gives
\* exactly one bullet.
C9_InsightsNeverRaise ==
    Rendered =>
        /\ \A f \in DOMAIN ret.insights :
              /\ ~ret.insights[f].raised
              /\ Len(ret.insights[f].val) \in 1..3
        /\ ret.aggregates.fraud_by_platform = << >>
              => Len(ret.insights.insight_platform.val) = 1
        /\ ret.aggregates.fraud_by_addr = << >>
              => Len(ret.insights.insight_addresses.val) = 1
        /\ ret.aggregates.fraud_by_failed = << >>
              => Len(ret.insights.insight_failed.val) = 1

\* C10 as stated: each of the platform, address-count and GOV-bucket insights,
\* given a non-empty segment table, reports the group of maximum fraud rate,
\* the group of minimum fraud rate and the overall baseline fraud rate.
C10_AllReportExtremes ==
    Rendered =>
        LET a == ret.aggregates
        IN  /\ a.fraud_by_platform # << >> =>
                  ReportsExtremes(ret.insights.insight_platform,
                                  a.fraud_by_platform, a.overall_fraud_rate)
            /\ a.fraud_by_addr # << >> =>
                  ReportsExtremes(ret.insights.insight_addresses,
                                  a.fraud_by_addr, a.overall_fraud_rate)
            /\ a.fraud_by_gov_bin # << >> =>
                  ReportsExtremes(ret.insights.insight_govbin,
                                  a.fraud_by_gov_bin, a.overall_fraud_rate)

\* C10 amended: the platform and GOV-bucket insights, given a non-empty segment
\* table, report the maximum-rate group, the minimum-rate group and the
\* baseline.  The address-count insight, given a non-empty table, either raises
\* (the maximum-rate group it picked has a missing address count) or reports a
\* maximum-rate group and the baseline and no minimum-rate group; its third
\* bullet, present exactly when some group has 2 or more addresses, is the
\* mean fraud rate of those groups.
C10_ExtremesExceptAddresses ==
    Rendered =>
        LET a == ret.aggregates
            addr == ret.insights.insight_addresses
        IN  /\ a.fraud_by_platform # << >> =>
                  ReportsExtremes(ret.insights.insight_platform,
                                  a.fraud_by_platform, a.overall_fraud_rate)
            /\ a.fraud_by_gov_bin # << >> =>
                  ReportsExtremes(ret.insights.insight_govbin,
                                  a.fraud_by_gov_bin, a.overall_fraud_rate)
            /\ a.fraud_by_addr # << >> =>
                  \/ /\ addr.raised
                     /\ \E g \in SortHeads(a.fraud_by_addr) : a.fraud_by_addr[g].key.na
                  \/ /\ ~addr.raised
                     /\ ReportsGroup(addr, "highest", a.fraud_by_addr,
                                     MaxRate(a.fraud_by_addr))
                     /\ ReportsBaseline(addr, a.overall_fraud_rate)
                     /\ \A b \in DOMAIN addr.val : addr.val[b].kind # "lowest"
                     /\ Len(addr.val) = 3 <=> MeanFrom(a.fraud_by_addr, 2).k # "nan"
                     /\ Len(addr.val) = 3 =>
                           addr.val[3] = ValueBullet("2+ addresses average",
                                                     MeanFrom(a.fraud_by_addr, 2))

\* C10 witness: the insights were rendered from tables in which the address
\* groups differ in fraud rate, the address insight returned, and the platform
\* and GOV tables are not empty.
C10_Witness ==
    /\ pc = "built"
    /\ ret.aggregates.fraud_by_addr # << >>
    /\ ~REq(MaxRate(ret.aggregates.fraud_by_addr), MinRate(ret.aggregates.fraud_by_addr))
    /\ Len(ret.insights.insight_addresses.val) = 3
    /\ ret.aggregates.fraud_by_platform # << >>
    /\ ret.aggregates.fraud_by_gov_bin # << >>

\* the daily cost summed over the dated rows d with lo < d <= hi
CalendarCost(daily, lo, hi) ==
    LET s == DailySeries(daily, "cb_cost")
    IN  SeriesSum(s, { d \in DOMAIN s : DateGt(d, lo) /\ DateLe(d, hi) })

\* days from the first to the latest date of the daily series
HistoryDays(daily) ==
    LET dates == { daily[g].DATE : g \in DOMAIN daily } \ { NaT }
    IN  IF dates = {} THEN 0
        ELSE IndexMax(dates) - (CHOOSE m \in dates : \A d \in dates : m <= d) + 1

\* C11: the cost insight reports the cost summed over the 7 calendar days that
\* end at the latest date, reports the cost of the 7 calendar days before them
\* exactly when 14 days of history exist, and always reports the lifetime
\* total, also when the daily series has gaps or a row with no date.
C11_CalendarCostWindows ==
    Rendered /\ ret.aggregates.daily # << >> =>
        LET daily == ret.aggregates.daily
            out == ret.insights.insight_cb_cost.val
            m == IndexMax({ daily[g].DATE : g \in DOMAIN daily })
            hasPrior == HistoryDays(daily) >= TwoWindowDays
        IN  /\ out[1] = ValueBullet("last 7d cost",
                                    CalendarCost(daily, MinusDays(m, WindowDays), m))
            /\ hasPrior <=> \E b \in DOMAIN out : out[b].kind = "prior 7d cost"
            /\ hasPrior =>
                  out[2].value = CalendarCost(daily, MinusDays(m, TwoWindowDays),
                                              MinusDays(m, WindowDays))
            /\ out[Len(out)] = ValueBullet("lifetime cost", ret.aggregates.overall_cb_cost)

(***************************************************************************)
(* The predictor ranking of the "Fraud Predictors" tab                     *)
(*                                                                         *)
(* corr is the Series df.select_dtypes(number).assign(FRAUD_FLAG=...)      *)
(* .corr(numeric_only=True)["FRAUD_FLAG"]: one row [Feature, value] per    *)
(* numeric column of df, in column order.                                  *)
(***************************************************************************)
TopN == 20

\* the labels of .drop(labels=[...], errors="ignore")
DroppedLabels == { "FRAUD_FLAG", "IS_FRAUDULENT_CHARGEBACK" }

\* the DataFrame of Feature and CorrelationWithFraud
predictor_frame(corr) ==
    LET kept(r) == r.Feature \notin DroppedLabels
    IN  SelectSeq(corr, kept)

RECURSIVE SortValues(_)
\* DataFrame.sort_values("CorrelationWithFraud") of the rows at a set of
\* positions: values ascending, NaN last.  The sort is not stable, so the
\* result is the sequence of runs of equal value, each the set of its rows.
SortValues(rows) ==
    IF rows = {} THEN << >>
    ELSE LET known == { r \in rows : r.CorrelationWithFraud.k # "nan" }
         IN  IF known = {}
             THEN << [ value |-> NaN, rows |-> rows ] >>
             ELSE LET m == CHOOSE r \in known : \A o \in known :
                               ~RLess(o.CorrelationWithFraud, r.CorrelationWithFraud)
                      run == { r \in known :
                                 REq(r.CorrelationWithFraud, m.CorrelationWithFraud) }
                  IN  << [ value |-> m.CorrelationWithFraud, rows |-> run ] >>
                      \o SortValues(rows \ run)

\* the rows px.bar draws: _df.head(20).sort_values(...) or, for an empty
\* frame, an empty one
predictor_bars(corr) ==
    LET df == predictor_frame(corr)
        head == SeqHead(df, TopN)
    IN  IF df = << >> THEN << >>
        ELSE SortValues({ [ pos |-> i, Feature |-> head[i].Feature,
                            CorrelationWithFraud |-> head[i].CorrelationWithFraud ] :
                          i \in DOMAIN head })

\* numeric columns a file can hold besides the two labels
MaxFeatures == 21

FeatureNames ==
    << "DELIVERY_ID", "GOV", "CHARGEBACK_COST", "SIFT_CREATE_ORDER_PA_SCORE",
       "FAIL_CHARGES_1HR", "FAIL_CHARGES_1D", "FAIL_CHARGES_7D",
       "DEVICE_DELIVERIES", "DEVICE_PCT_CHARGEBACK", "CCR_PAST_DELIVERIES",
       "CCR_CHARGEBACK_DELIVERIES", "CX_PCT_CHARGEBACK", "CX_UNIQUE_ADDRESSES",
       "UNIQUE_ADDRESS_PAST_1DAY", "UNIQUE_ADDRESS_PAST_7DAY",
       "CX_DEVICE_ORDER_NUM", "CX_ADDRESS_ORDER_NUM", "CX_CARD_ORDER_NUM",
       "CX_ORDER_NUM", "CX_AGE_ON_DELIVERY_BASED_ON_FIRST_ORDER",
       "EXTRA_1", "EXTRA_2", "EXTRA_3" >>

CorrRow(name, value) == [ Feature |-> name, CorrelationWithFraud |-> value ]

\* the label columns of the file: both, or the fraud label alone
LabelRows(received, both) ==
    (IF both THEN << CorrRow("RECEIVED_CHARGEBACK", received) >> ELSE << >>)
    \o << CorrRow("IS_FRAUDULENT_CHARGEBACK", Fin(1, 1)) >>

\* corr Series of a file with n numeric feature columns, of which column k
\* (none for k = 0) correlates strongly and the others weakly.  The labels are
\* the first columns of the file or its last; a file with the fraud label only
\* gets a constant RECEIVED_CHARGEBACK from preprocess (correlation NaN), after
\* HOUR and DOW; FRAUD_FLAG and GOV_DOLLARS are appended last.
CorrSeries(n, k, strong, weak, labels, received) ==
    LET features == [ i \in 1..n |->
                        CorrRow(FeatureNames[i], IF i = k THEN strong ELSE weak) ]
        both == labels # "fraud only"
    IN  (IF labels # "last" THEN LabelRows(received, both) ELSE << >>)
        \o features
        \o (IF labels = "last" THEN LabelRows(received, both) ELSE << >>)
        \o << CorrRow("HOUR", Fin(1, 10)), CorrRow("DOW", NaN) >>
        \o (IF both THEN << >> ELSE << CorrRow("RECEIVED_CHARGEBACK", NaN) >>)
        \o << CorrRow("FRAUD_FLAG", Fin(1, 1)), CorrRow("GOV_DOLLARS", Fin(1, 5)) >>

CorrInputs ==
    { CorrSeries(n, k, strong, weak, labels, received) :
        n \in 0..MaxFeatures, k \in 0..MaxFeatures,
        strong \in { Fin(-9, 10), Fin(9, 10) },
        weak \in { Zero, Fin(1, 2) },
        labels \in { "first", "last", "fraud only" },
        received \in { Fin(1, 2), Fin(1, 1) } }

RankInit == UIInit /\ arg \in CorrInputs /\ ret = None /\ pc = "call"

PredictorsTab ==
    /\ pc = "call"
    /\ ret' = [ frame |-> predictor_frame(arg), bars |-> predictor_bars(arg) ]
    /\ pc' = "done"
    /\ UNCHANGED << arg, uiVars >>

RankNext == PredictorsTab

SpecRank == RankInit /\ [][RankNext]_vars

LabelColumns == { "RECEIVED_CHARGEBACK", "IS_FRAUDULENT_CHARGEBACK", "FRAUD_FLAG" }

\* C12: the correlation ranking holds neither label column (RECEIVED_CHARGEBACK,
\* IS_FRAUDULENT_CHARGEBACK / FRAUD_FLAG), so never the fraud flag's
\* correlation with itself, and holds every other numeric column at most once.
C12_LabelsExcluded ==
    pc = "done" =>
        /\ \A i \in DOMAIN ret.frame : ret.frame[i].Feature \notin LabelColumns
        /\ \A i, j \in DOMAIN ret.frame :
              ret.frame[i].Feature = ret.frame[j].Feature => i = j

RAbs(a) == IF a.k = "nan" THEN Fin(-1, 1) ELSE Fin(Abs(a.n), a.d)

\* row i of the frame precedes row j in the order by magnitude descending,
\* ties in column order (a NaN correlation after every number)
Outranks(frame, i, j) ==
    \/ RLess(RAbs(frame[j].CorrelationWithFraud), RAbs(frame[i].CorrelationWithFraud))
    \/ /\ REq(RAbs(frame[j].CorrelationWithFraud), RAbs(frame[i].CorrelationWithFraud))
       /\ i < j

TopByMagnitude(frame) ==
    { frame[i].Feature : i \in { j \in DOMAIN frame :
        Cardinality({ o \in DOMAIN frame : Outranks(frame, o, j) }) < TopN } }

Displayed(bars) == UNION { { r.Feature : r \in bars[g].rows } : g \in DOMAIN bars }

\* C13: the displayed ranking is the 20 columns of largest absolute correlation
\* with the fraud flag (all of them when fewer than 20), ties broken by column
\* order.
C13_TopTwentyByMagnitude ==
    pc = "done" => Displayed(ret.bars) = TopByMagnitude(ret.frame)

IsRate(f) == f.k = "fin" /\ ~RLess(f, Zero) /\ ~RLess(Fin(1, 1), f)

\* every row of tbl has a rate in [0, 1] and the key of some record of df
ObservedRates(tbl, df, col) ==
    \A g \in DOMAIN tbl :
        /\ IsRate(tbl[g].fraud_rate)
        /\ \E i \in DOMAIN df : df[i][col] = tbl[g].key

\* C14: in every segment table (platform, unique-address count, failed-charge
\* count, GOV bucket) each fraud_rate lies in [0, 1] and each group has at
\* least one record of the table.
C14_SegmentRates ==
    Aggregated =>
        LET a == ret.aggregates
            df == WithGovBin(Preprocess(arg))
        IN  /\ ObservedRates(a.fraud_by_platform, df, "PLATFORM")
            /\ ObservedRates(a.fraud_by_addr, df, "CX_UNIQUE_ADDRESSES")
            /\ ObservedRates(a.fraud_by_failed, df, "FAIL_CHARGES_1D")
            /\ ObservedRates(a.fraud_by_gov_bin, df, "GOV_BIN_LABEL")

\* C14 witness: the tables were computed and a group of several records, some
\* fraudulent and some not, has a rate strictly between 0 and 1, and the GOV
\* bucket table has a group.
C14_Witness ==
    /\ pc = "aggregated"
    /\ \E g \in DOMAIN ret.aggregates.fraud_by_addr :
          /\ RLess(Zero, ret.aggregates.fraud_by_addr[g].fraud_rate)
          /\ RLess(ret.aggregates.fraud_by_addr[g].fraud_rate, Fin(1, 1))
    /\ Len(ret.aggregates.fraud_by_gov_bin) >= 1

\* C15: the daily series has exactly one row per date of the table, and on
\* each row chargeback_rate = chargebacks / records and fraud_rate =
\* fraudulent / records, records being the number of records of that date, so
\* both rates lie in [0, 1], also when records lack a DELIVERY_ID.
C15_DailyRates ==
    Aggregated =>
        LET daily == ret.aggregates.daily
            df == Preprocess(arg)
        IN  /\ \A g, h \in DOMAIN daily : daily[g].DATE = daily[h].DATE => g = h
            /\ { daily[g].DATE : g \in DOMAIN daily } = { df[i].DATE : i \in DOMAIN df }
            /\ \A g \in DOMAIN daily :
                  LET idx == { i \in DOMAIN df : df[i].DATE = daily[g].DATE }
                      records == Cardinality(idx)
                  IN  /\ REq(daily[g].chargeback_rate,
                              Ratio(SumOver(df, idx, "RECEIVED_CHARGEBACK"), records))
                      /\ REq(daily[g].fraud_rate,
                              Ratio(SumOver(df, idx, "FRAUD_FLAG"), records))
                      /\ IsRate(daily[g].chargeback_rate)
                      /\ IsRate(daily[g].fraud_rate)

\* the mean order value, in dollars, of the records at idx that have one
PresentOrderValueMean(t, idx) ==
    LET have == { i \in idx : t.rows[i].GOV.k # "nan" }
        dollars == [ i \in have |-> FloatDiv(t.rows[i].GOV, Fin(100, 1)).val ]
    IN  IF have = {} THEN NaN ELSE SeriesMean(dollars, have)

\* C16: a missing order value is absent from every mean: avg_gov and the daily
\* avg_gov are means over the records whose order value is present.
C16_MissingExcludedFromMeans ==
    Aggregated /\ "GOV" \in arg.columns =>
        /\ ret.aggregates.avg_gov = PresentOrderValueMean(arg, DOMAIN arg.rows)
        /\ \A g \in DOMAIN ret.aggregates.daily :
              ret.aggregates.daily[g].avg_gov =
                  PresentOrderValueMean(arg, { i \in DOMAIN arg.rows :
                      arg.rows[i].DATE = ret.aggregates.daily[g].DATE })

\* C17: the absence of an optional column never makes startup fail: the
\* dependent segment table is empty and its insight is the one 'no data'
\* bullet, and the daily series is computed all the same.
C17_OptionalColumnsDegrade ==
    /\ pc # "crashed"
    /\ Rendered =>
          /\ "PLATFORM" \notin arg.columns =>
                /\ ret.aggregates.fraud_by_platform = << >>
                /\ ret.insights.insight_platform = Return(<< TextBullet("no platform data") >>)
          /\ "CX_UNIQUE_ADDRESSES" \notin arg.columns =>
                /\ ret.aggregates.fraud_by_addr = << >>
                /\ ret.insights.insight_addresses = Return(<< TextBullet("no address data") >>)
          /\ "FAIL_CHARGES_1D" \notin arg.columns =>
                /\ ret.aggregates.fraud_by_failed = << >>
                /\ ret.insights.insight_failed = Return(<< TextBullet("no failed charge data") >>)
          /\ { ret.aggregates.daily[g].DATE : g \in DOMAIN ret.aggregates.daily }
                = { arg.rows[i].DATE : i \in DOMAIN arg.rows }

\* C18: for a table with no record every KPI (overall chargeback rate, overall
\* fraud rate, total chargeback cost, average order value, average risk score)
\* is 0, no aggregation or insight step raises, and the glossary and all 7
\* recommendation cards still render.
C18_ZeroRecords ==
    arg # None /\ arg.rows = << >> /\ pc # "load" =>
        /\ pc \notin { "crashed", "failed" }
        /\ IsZeroF(ret.aggregates.overall_cb_rate)
        /\ IsZeroF(ret.aggregates.overall_fraud_rate)
        /\ IsZeroF(ret.aggregates.overall_cb_cost)
        /\ IsZeroF(ret.aggregates.avg_gov)
        /\ IsZeroF(ret.aggregates.avg_sift)
        /\ Len(build_rec_cards(None)) = 7
        /\ \A f \in GlossaryFields : show_glossary_definition(PyStr(f)) # << >>

\* every record is flagged chargeback and fraud and has its own delivery id
AllFlagged(t) ==
    /\ t.rows # << >>
    /\ { "RECEIVED_CHARGEBACK", "IS_FRAUDULENT_CHARGEBACK" } \subseteq t.columns
    /\ \A i \in DOMAIN t.rows :
          /\ t.rows[i].RECEIVED_CHARGEBACK = 1
          /\ t.rows[i].IS_FRAUDULENT_CHARGEBACK = 1
          /\ ~t.rows[i].DELIVERY_ID.na
    /\ \A i, j \in DOMAIN t.rows :
          t.rows[i].DELIVERY_ID = t.rows[j].DELIVERY_ID => i = j

\* the one-record scenario: order value 5000 cents, both labels set, a date
SingleRecord(t) ==
    /\ Len(t.rows) = 1
    /\ AllFlagged(t)
    /\ "GOV" \in t.columns
    /\ t.rows[1].GOV = Fin(5000, 1)
    /\ t.rows[1].DATE # NaT

\* C19: when every record is flagged chargeback and fraud and the delivery ids
\* are distinct, both overall rates are 1.0 and on every daily row deliveries,
\* chargebacks and fraudulent equal the number of records of the date; for the
\* single record of 5000 cents the order value is 50.00 dollars and the daily
\* series is one row with deliveries = chargebacks = fraudulent = 1.
C19_AllFlaggedRates ==
    Aggregated /\ AllFlagged(arg) =>
        LET a == ret.aggregates
        IN  /\ REq(a.overall_cb_rate, Fin(1, 1))
            /\ REq(a.overall_fraud_rate, Fin(1, 1))
            /\ \A g \in DOMAIN a.daily :
                  LET records == Cardinality({ i \in DOMAIN arg.rows :
                                                 arg.rows[i].DATE = a.daily[g].DATE })
                  IN  /\ a.daily[g].deliveries = records
                      /\ a.daily[g].chargebacks = records
                      /\ a.daily[g].fraudulent = records
            /\ SingleRecord(arg) =>
                  /\ a.avg_gov = Fin(50, 1)
                  /\ Preprocess(arg)[1].GOV_DOLLARS = Fin(50, 1)
                  /\ Len(a.daily) = 1
                  /\ a.daily[1].deliveries = 1
                  /\ a.daily[1].chargebacks = 1
                  /\ a.daily[1].fraudulent = 1

\* C19 witness: the aggregates of the single-record scenario were computed.
C19_Witness == pc = "aggregated" /\ SingleRecord(arg)

(***************************************************************************)
(* The served process: startup computes the data layer once, then the      *)
(* callbacks run against it                                                *)
(***************************************************************************)
\* the table the process serves: two records, one of them fraudulent with an
\* order value of 5000 cents, on two platforms
ServedTables ==
    { Table(OptionalColumns,
            << BaseRow(1),
               [ BaseRow(2) EXCEPT !.GOV = Fin(5000, 1), !.RECEIVED_CHARGEBACK = 1,
                                   !.IS_FRAUDULENT_CHARGEBACK = 1,
                                   !.PLATFORM = Str(1, "Android") ] >>) }

ServeInit == UIInit /\ arg \in ServedTables /\ ret = None /\ pc = "load"

\* app.run serves callbacks once the module body has run to its end
Serve == pc = "built" /\ Next

ServeNext == Aggregate \/ BuildTabs \/ Serve

SpecServe == ServeInit /\ [][ServeNext]_vars

\* C20: no interaction recomputes or mutates the data layer: every step taken
\* while the process serves leaves the loaded table, the aggregates and the
\* insights that startup computed unchanged (the glossary map and REC_DEFS are
\* constants that the callbacks only read); a router step changes nothing of
\* the session but the selected rule and the active tab, and the two render
\* callbacks nothing but the children they output.
C20_DataLayerFrozen ==
    [][pc = "built" =>
          /\ arg' = arg /\ ret' = ret /\ pc' = pc
          /\ last_event'.kind = "click" =>
                UNCHANGED << rec_cards, glossary_value, glossary_card >>
          /\ last_event'.kind = "render" =>
                UNCHANGED << rec_target, tabs_value, glossary_value, glossary_card >>
          /\ last_event'.kind = "definition" =>
                UNCHANGED << rec_target, tabs_value, glossary_value, rec_cards >>
    ]_vars

\* C20 witness: the process serves and every callback has run: a rule is
\* selected, its cards and a glossary definition are rendered.
C20_Witness ==
    /\ pc = "built"
    /\ arg.rows # << >>
    /\ rec_target # None
    /\ rec_cards # << >>
    /\ glossary_card # << >>
    /\ last_event.kind = "definition"

(***************************************************************************)
(* build_rec_cards applied to any value the rec_target store can be sent   *)
(* with                                                                    *)
(***************************************************************************)
\* values of rec_target.data in a request for render_recommendations: the
\* catalog keys, and values that are not keys: the card ids, the keys
\* capitalised, rule titles, tags, tab values, glossary fields, the empty
\* string, numbers and None
CardIds ==
    { "rec-temporal", "rec-failed_payments", "rec-address_velocity", "rec-device",
      "rec-sift", "rec-gov", "rec-platform" }

CapitalisedKeys ==
    { "Temporal", "Failed_payments", "Address_velocity", "Device",
      "Sift", "Gov", "Platform" }

SelectedKeys ==
    { PyStr(k) : k \in RecKeys }
    \cup { PyStr(k) : k \in CardIds \cup CapitalisedKeys \cup TabValues \cup GlossaryFields }
    \cup { PyStr(REC_DEFS[k].title) : k \in RecKeys }
    \cup UNION { { PyStr(REC_DEFS[k].tags[i]) : i \in DOMAIN REC_DEFS[k].tags } : k \in RecKeys }
    \cup { PyStr("bogus"), PyStr(""), PyNum("0"), PyNum("1"), PyNum("7"), None }

CardsInit == UIInit /\ arg \in SelectedKeys /\ ret = None /\ pc = "call"

CallBuildRecCards ==
    /\ pc = "call"
    /\ ret' = build_rec_cards(arg)
    /\ pc' = "cards"
    /\ UNCHANGED arg
    /\ UNCHANGED uiVars

CardsNext == CallBuildRecCards

SpecCards == CardsInit /\ [][CardsNext]_vars

Highlighted(cards) == { i \in DOMAIN cards : cards[i].highlight }

C22_OverallRates ==
    Aggregated =>
        /\ IsRate(ret.aggregates.overall_cb_rate)
        /\ IsRate(ret.aggregates.overall_fraud_rate)

(***************************************************************************)
(* The selected-rule store over a session                                  *)
(***************************************************************************)
\* dcc.Store(id="rec_target", data=None): None until a rule is selected
TargetIsKeyOrNone == rec_target = None \/ InRecDefs(rec_target)

\* exactly one card is highlighted and it is the first of the rendered list
OneCardFirst(cards) == Len(cards) > 0 /\ Highlighted(cards) = { 1 }

\* C23, as stated: in every state of a session rec_target is None or a catalog
\* key; once it holds a catalog key it holds one in every later state; and in
\* every state in which it holds a key exactly one recommendation card is
\* rendered first and highlighted.
C23_SelectionAlwaysShown ==
    [][ /\ TargetIsKeyOrNone'
        /\ InRecDefs(rec_target) => InRecDefs(rec_target')
        /\ InRecDefs(rec_target') => OneCardFirst(rec_cards') ]_vars

\* C23, amended: rec_target is None or a catalog key, a selection is never
\* cleared, and exactly one card is rendered first and highlighted in every
\* state in which render_recommendations has run for the value the store holds
\* (between the router's write and that run the cards on display are those of
\* the previous value).
C23_SelectionShownOnceRendered ==
    [][ /\ TargetIsKeyOrNone'
        /\ InRecDefs(rec_target) => InRecDefs(rec_target')
        /\ (InRecDefs(rec_target') /\ "render_recommendations" \notin pending') =>
              OneCardFirst(rec_cards') ]_vars

\* C23 witness: a rule was selected and rendered, then a request without a
\* key came in and the glossary was used: the selection and its card stay.
C23_Witness ==
    /\ rec_target = PyStr("device")
    /\ last_valid = PyStr("device")
    /\ last_event.kind = "definition"
    /\ "render_recommendations" \notin pending
    /\ OneCardFirst(rec_cards)
    /\ rec_cards[1].id = "device"
    /\ tabs_value = PyStr("glossary")

====
